---- MODULE Spec2Model ----
(***************************************************************************)
(* fastclaw-relay: the gateway connection (request/response correlation,   *)
(* handshake, close), the relay's reconnect loop, the forwarding passes    *)
(* and the recent-hash deduplication of scripts/relay.mjs.                 *)
(*                                                                         *)
(* JavaScript runs one callback at a time: every action below is one       *)
(* callback (a socket event, a timer, the continuation of an await) run to *)
(* its next suspension point.                                              *)
(***************************************************************************)
EXTENDS Integers, Sequences, FiniteSets, TLC

\* ------------------------------------------------------------------ bounds
\* request ids one GatewayConnection hands out (randomUUID, never reused)
MaxId == 3
\* request ids of one connection in the runs of the reconnect loop
MaxRelayId == 2
\* consecutive failed opens the gateway may cause
MaxAttempt == 2
\* forwarding passes (invocations of forwardUnsyncedAppMessages) in one run
MaxPass == 2
\* application messages waiting in RemoteStore
MaxApp == 2
\* request ids of the connection in the runs of the forwarding passes
MaxFwdId == 2
\* gateway messages one chat.send response carries
MaxBatch == 2
\* clock steps of one run
MaxClock == 1
\* delta events of one run before its final event
MaxDeltas == 2
\* subscribers of a connection, and frames numbered while there are subscribers
MaxSubs == 2
MaxFrames == 2
\* failed opens in a row of the backoff specification
MaxRetry == 6
\* messages delivered to RemoteStore in the inbound specification
MaxPushes == 2
\* pending actions one pass of processCronActions() is given
MaxActions == 3
\* the actions of the cronActions table, the passes of processCronActions() that
\* can be in progress together, and the times one action can be executed
MaxPolled == 2
MaxPollers == 2
MaxExec == 2

\* pushChatEvent(): content is cut to text.slice(0, 4000)
ContentCap == 4000

NoId == 0
Ids == 1..MaxId

VARIABLES
  \* ---- GatewayConnection
  wsRef,          \* this.ws is not null
  readyState,     \* ws.readyState; "NONE" before open() created the socket
  closed,         \* this.closed
  connected,      \* this.connected
  pending,        \* keys of this.pending
  timers,         \* ids whose request timer is armed
  owner,          \* id -> who awaits the request's promise
  wire,           \* ids of the request frames sent on the socket
  nextId,         \* the next fresh id
  settled,        \* id -> the resolve/reject calls made on its promise, in order
  openState,      \* the promise of open(): "idle", "pending", "resolved", "rejected"
  connectTimer,   \* the 15 s connectTimeout of open() is armed
  fallbackTimer,  \* the 200 ms fallbackTimer of open() is armed
  waitState,      \* the promise of waitForClose(): "none", "pending", "resolved"
  closeState,     \* the promise of close()'s transport wait: "none", "pending", "done"
  lastOp          \* the callback that ran last (observation only)

connVars == <<wsRef, readyState, closed, connected, pending, timers, owner, wire,
              nextId, settled, openState, connectTimer, fallbackTimer, waitState,
              closeState>>

VARIABLES
  \* ---- Relay
  running,           \* this.running
  reconnectAttempt,  \* this.reconnectAttempt
  connRef,           \* this.conn is not null
  pc,                \* where start() is suspended
  initStep,          \* the await of the initial pass runConnected() is at (0: no session)
  subscribed,        \* onFrame is registered in conn.handlers
  ivTimers,          \* the armed setInterval timers of runConnected()
  brk,               \* the catch block of start() took its break
  closeAwait         \* the close() awaited by start() waits for the transport

relayVars == <<running, reconnectAttempt, connRef, pc, initStep, subscribed, ivTimers,
               brk, closeAwait>>

VARIABLES
  \* ---- forwarding passes, RemoteStore, recent hashes
  fwd,           \* pass -> the locals of a forwardUnsyncedAppMessages() in progress
  okSent,        \* application messages a chat.send of which has succeeded
  failedSent,    \* application messages a chat.send of which has failed
  resent,        \* messages sent again after a chat.send of theirs had succeeded
  sentKeys,      \* the (message, idempotencyKey) of every chat.send issued
  syncedSet,     \* RemoteStore: application messages with synced = true
  lastStored,    \* RemoteStore: hash -> when pushFromGateway last stored it (-1: never)
  dupes,         \* hashes stored again within the retention of an earlier store
  recentHashes,  \* this.recentGatewayMessageHashes: hash -> ts (-1: absent)
  now            \* nowMs()

fwdVars == <<fwd, okSent, failedSent, resent, sentKeys, syncedSet, lastStored, dupes, recentHashes,
             now>>

VARIABLES
  \* ---- the chat events of a run (onFrame of runConnected, pushChatEvent)
  pendingDeltas,  \* this.pendingDeltas: runId -> {sessionKey, text, timestamp}
  deltas,         \* runId -> the texts of the delta events of the run since its last final
  lastEvt,        \* the frame onFrame was last called with
  emitted,        \* the payload that call handed to pushChatEvent()
  pushedMsg       \* the arguments of the pushFromGateway mutation that call issued

chatVars == <<pendingDeltas, deltas, lastEvt, emitted, pushedMsg>>

VARIABLES
  \* ---- the subscribers of a connection (onFrame, the loop of the message handler)
  handlers,  \* this.handlers, in the order of insertion a Set iterates in
  rx,        \* subscriber -> the frames its handler was called with
  expect,    \* subscriber -> the frames that arrived while it was registered
  rxCount    \* how many frames have been numbered

dispVars == <<handlers, rx, expect, rxCount>>

VARIABLES
  \* ---- the backoff of start() and the messages pushed from the gateway side
  waitMs,  \* waitMs of start(): what the loop last slept for
  inLog,   \* the messages a pushFromGateway mutation has delivered, oldest first
  inSeen,  \* the keys of this.recentGatewayMessageHashes
  cron,    \* the pass of processCronActions() in progress, and what it has done
  polls    \* the passes the cronActionsPoll timer has started, and the action table

restVars == <<waitMs, inLog, inSeen, cron, polls>>

\* the state of the handlers of frames, and the rest
sideVars == <<chatVars, dispVars, restVars>>

\* everything but the connection
nonConn == <<relayVars, fwdVars, sideVars>>

vars == <<connVars, relayVars, fwdVars, sideVars, lastOp>>

\* type: the logical type of a connect response ("": not a connect response)
Op(o, i, r) == [op |-> o, id |-> i, res |-> r, type |-> ""]

\* if (type !== "hello-ok") throw
IsHelloOk_any(htype) == TRUE
IsHelloOk(htype) == htype = "hello-ok"

\* ------------------------------------------------- GatewayConnection: state
ConnInit ==
  /\ wsRef = FALSE
  /\ readyState = "NONE"
  /\ closed = FALSE
  /\ connected = FALSE
  /\ pending = {}
  /\ timers = {}
  /\ owner = [i \in Ids |-> "none"]
  /\ wire = {}
  /\ nextId = 1
  /\ settled = [i \in Ids |-> <<>>]
  /\ openState = "idle"
  /\ connectTimer = FALSE
  /\ fallbackTimer = FALSE
  /\ waitState = "none"
  /\ closeState = "none"

\* request(): the transport is usable
SocketOpen_noGuard == TRUE
SocketOpen_anySocket == wsRef
SocketOpen == wsRef /\ readyState = "OPEN"

\* settle() of open(): the first call decides, later calls are ignored
SettledOpen(v) == IF openState = "pending" THEN v ELSE openState
SettledTimer(t) == IF openState = "pending" THEN FALSE ELSE t

\* the ids whose promise is awaited by sendConnect
ConnectIds(S) == {i \in S : owner[i] = "connect"}

\* message handler: the pending entry a frame is correlated with
Correlate_oldest(fid, pend) ==
  IF fid # NoId /\ pend # {} THEN CHOOSE i \in pend : \A j \in pend : i <= j ELSE NoId
Correlate(fid, pend) ==
  IF fid # NoId /\ fid \in pend THEN fid ELSE NoId

\* close(): the pending entries it rejects, and the timers it leaves armed
CloseRejects_one(pend) ==
  IF pend = {} THEN {} ELSE {CHOOSE i \in pend : \A j \in pend : i <= j}
CloseRejects(pend) == pend

\* close(): clearTimeout(p.timer) for each entry it rejects
ClearTimeouts_none(S) == {}
ClearTimeouts(S) == S

\* timeout callback of request(): what is left of the pending map
TimeoutDeletes_none(id, pend) == pend
TimeoutDeletes(id, pend) == pend \ {id}

reqVars == <<pending, timers, owner, wire, nextId>>

\* the last id the run may hand out
IdCap == IF pc = "idle" THEN MaxId ELSE IF pc = "session" THEN MaxFwdId ELSE MaxRelayId

\* request(): const timer = setTimeout(..., timeoutMs)
ArmTimeout_none(id) == {}
ArmTimeout(id) == {id}

\* request(): rejects at once on a transport that is not open, otherwise
\* registers the pending entry, arms its timer and sends the frame
ReqResult == IF SocketOpen THEN "sent" ELSE "notopen"
DoRequest(who) ==
  IF ~SocketOpen
  THEN UNCHANGED reqVars
  ELSE /\ nextId <= IdCap
       /\ pending' = pending \cup {nextId}
       /\ timers' = timers \cup ArmTimeout(nextId)
       /\ owner' = [owner EXCEPT ![nextId] = who]
       /\ wire' = wire \cup {nextId}
       /\ nextId' = nextId + 1

\* sendConnect(): request("connect"); a request rejected at once is caught and
\* fails the open
SendConnect ==
  /\ DoRequest("connect")
  /\ openState' = IF SocketOpen THEN openState ELSE SettledOpen("rejected")
  /\ connectTimer' = IF SocketOpen THEN connectTimer ELSE SettledTimer(connectTimer)

\* open(): creates the socket and arms the overall handshake deadline
DoOpen ==
  /\ closed' = FALSE
  /\ wsRef' = TRUE
  /\ readyState' = "CONNECTING"
  /\ openState' = "pending"
  /\ connectTimer' = TRUE
  /\ UNCHANGED <<connected, reqVars, settled, fallbackTimer, waitState, closeState>>

\* ws.close(1000, ...) on a socket in state rs
WsClose(rs) == IF rs \in {"CONNECTING", "OPEN"} THEN "CLOSING" ELSE rs

\* close()
DoClose ==
  IF closed
  THEN UNCHANGED connVars
  ELSE /\ closed' = TRUE
       /\ connected' = FALSE
       /\ settled' = [i \in Ids |-> IF i \in CloseRejects(pending)
                                    THEN Append(settled[i], "closing") ELSE settled[i]]
       /\ timers' = timers \ ClearTimeouts(CloseRejects(pending))
       /\ pending' = {}
       /\ openState' = IF ConnectIds(CloseRejects(pending)) # {}
                       THEN SettledOpen("rejected") ELSE openState
       /\ connectTimer' = IF ConnectIds(CloseRejects(pending)) # {}
                          THEN SettledTimer(connectTimer) ELSE connectTimer
       /\ fallbackTimer' = IF ConnectIds(CloseRejects(pending)) # {}
                           THEN SettledTimer(fallbackTimer) ELSE fallbackTimer
       /\ wsRef' = FALSE
       /\ readyState' = IF wsRef THEN WsClose(readyState) ELSE readyState
       /\ closeState' = IF wsRef THEN "pending" ELSE closeState
       /\ UNCHANGED <<owner, wire, nextId, waitState>>

\* waitForClose()
DoWaitForClose ==
  /\ waitState' = IF wsRef THEN "pending" ELSE "resolved"
  /\ UNCHANGED <<wsRef, readyState, closed, connected, reqVars, settled, openState,
                 connectTimer, fallbackTimer, closeState>>

\* ------------------------------------------- GatewayConnection: callbacks

\* The gateway lets at most MaxAttempt opens in a row fail while the relay runs
\* (this keeps reconnectAttempt finite; a stopped relay never counts).
FailureBudget ==
  (openState = "pending" /\ openState' = "rejected") =>
    (reconnectAttempt < MaxAttempt \/ ~running)

Frames ==
  [kind : {"res"}, id : Ids, ok : BOOLEAN, htype : {"hello-ok", "other"}]
  \cup {[kind |-> k, id |-> NoId, ok |-> TRUE, htype |-> "other"] :
          k \in {"challenge", "evt", "garbage"}}

\* start() has not slept, nothing has been pushed
CronIdle == [pc |-> "idle", todo |-> <<>>, failed |-> {}, reported |-> {}, left |-> <<>>]

\* the cronActions table holds MaxPolled actions, all pending; no pass of
\* processCronActions() is in progress
Polled == 1..MaxPolled
Pollers == 1..MaxPollers
PollIdle == [pc |-> "idle", todo |-> <<>>, status |-> ""]
PollsIdle ==
  [table |-> [a \in Polled |-> "pending"],
   execs |-> [a \in Polled |-> 0],
   reports |-> [a \in Polled |-> 0],
   pass |-> [p \in Pollers |-> PollIdle]]

RestIdle ==
  /\ waitMs = 0
  /\ inLog = <<>>
  /\ inSeen = {}
  /\ cron = CronIdle
  /\ polls = PollsIdle

Subs == 1..MaxSubs

\* new Set(): nobody has subscribed
DispIdle ==
  /\ handlers = <<>>
  /\ rx = [h \in Subs |-> <<>>]
  /\ expect = [h \in Subs |-> <<>>]
  /\ rxCount = 0

Registered == {handlers[k] : k \in 1..Len(handlers)}

\* the frame as a subscriber sees it: what it is and the how-manieth it is
Tok(f) == [n |-> rxCount + 1, kind |-> f.kind]

\* a parsed frame that answers no pending request arrived: it is numbered and
\* every registered subscriber is due it (nothing is recorded while nobody is
\* subscribed)
Arrived(f) ==
  IF handlers = <<>>
  THEN UNCHANGED <<expect, rxCount>>
  ELSE /\ rxCount < MaxFrames
       /\ rxCount' = rxCount + 1
       /\ expect' = [h \in Subs |-> IF h \in Registered THEN Append(expect[h], Tok(f))
                                     ELSE expect[h]]

\* for (const handler of this.handlers) handler(frame): the handlers are called
\* in the order of insertion; thr is the position of the handler that throws
\* (0: none does), and the exception ends the loop
Dispatch(f, thr) ==
  rx' = [h \in Subs |->
           IF \E k \in 1..Len(handlers) : handlers[k] = h /\ (thr = 0 \/ k <= thr)
           THEN Append(rx[h], Tok(f)) ELSE rx[h]]

\* the handler reads ok only of a frame that answers a pending request and the
\* type only of the answer to connect: a field it does not read is left at the
\* one value the frames are enumerated with, since it changes nothing
ReadFields(f) ==
  f.kind = "res" =>
    /\ ~f.ok => Correlate(f.id, pending) # NoId
    /\ f.htype = "hello-ok" =>
         (Correlate(f.id, pending) # NoId /\ owner[Correlate(f.id, pending)] = "connect")

\* ws.on("message"): a frame arrives on the socket
OnMessage(f) ==
  /\ UNCHANGED <<relayVars, fwdVars, chatVars, handlers, restVars>>
  /\ readyState \in {"OPEN", "CLOSING"}
  /\ f.kind = "res" => f.id \in wire
  /\ ReadFields(f)
  /\ LET cid == Correlate(f.id, pending) IN
     IF f.kind = "garbage"
     THEN /\ lastOp' = Op("message", NoId, "garbage")
          /\ UNCHANGED connVars
          /\ UNCHANGED <<rx, expect, rxCount>>
     ELSE IF cid # NoId
     THEN /\ timers' = timers \ {cid}
          /\ pending' = pending \ {cid}
          /\ settled' = [settled EXCEPT ![cid] =
                           Append(@, IF f.ok THEN "resolved" ELSE "rpc_error")]
          /\ connected' = IF owner[cid] = "connect" /\ f.ok /\ IsHelloOk(f.htype)
                          THEN TRUE ELSE connected
          /\ openState' = IF owner[cid] # "connect" THEN openState
                          ELSE IF f.ok /\ IsHelloOk(f.htype)
                               THEN SettledOpen("resolved") ELSE SettledOpen("rejected")
          /\ connectTimer' = IF owner[cid] = "connect"
                             THEN SettledTimer(connectTimer) ELSE connectTimer
          /\ fallbackTimer' = IF owner[cid] = "connect"
                              THEN SettledTimer(fallbackTimer) ELSE fallbackTimer
          /\ lastOp' = [Op("message", f.id, IF f.ok THEN "resolved" ELSE "rpc_error")
                           EXCEPT !.type = IF owner[cid] = "connect" THEN f.htype ELSE ""]
          /\ UNCHANGED <<wsRef, readyState, closed, owner, wire, nextId, waitState,
                         closeState>>
          /\ UNCHANGED <<rx, expect, rxCount>>
     ELSE IF f.kind = "challenge"
     THEN /\ SendConnect
          /\ Arrived(f)
          /\ UNCHANGED rx
          /\ fallbackTimer' = IF SocketOpen THEN fallbackTimer
                              ELSE SettledTimer(fallbackTimer)
          /\ lastOp' = Op("message", NoId, "challenge")
          /\ UNCHANGED <<wsRef, readyState, closed, connected, settled, waitState,
                         closeState>>
     ELSE /\ Arrived(f)
          /\ \E thr \in 0..Len(handlers) :
               /\ Dispatch(f, thr)
               /\ lastOp' = Op("message", f.id, IF thr = 0 THEN "event" ELSE "threw")
          /\ UNCHANGED connVars
  /\ FailureBudget

\* the timer of request() rejects the promise of its own request
TimeoutRejects_all(id) == pending
TimeoutRejects(id) == {id}

\* the timer of request() fires
RequestTimeout(id) ==
  /\ UNCHANGED nonConn
  /\ id \in timers
  /\ timers' = timers \ {id}
  /\ pending' = TimeoutDeletes(id, pending)
  /\ settled' = [i \in Ids |-> IF i \in TimeoutRejects(id)
                               THEN Append(settled[i], "timeout") ELSE settled[i]]
  /\ openState' = IF owner[id] = "connect" THEN SettledOpen("rejected") ELSE openState
  /\ connectTimer' = IF owner[id] = "connect"
                     THEN SettledTimer(connectTimer) ELSE connectTimer
  /\ fallbackTimer' = IF owner[id] = "connect"
                      THEN SettledTimer(fallbackTimer) ELSE fallbackTimer
  /\ lastOp' = Op("timeout", id, "timeout")
  /\ UNCHANGED <<wsRef, readyState, closed, connected, owner, wire, nextId, waitState,
                 closeState>>
  /\ FailureBudget

\* connectTimeout of open() fires
ConnectTimeout ==
  /\ UNCHANGED nonConn
  /\ connectTimer
  /\ openState' = SettledOpen("rejected")
  /\ connectTimer' = FALSE
  /\ fallbackTimer' = SettledTimer(fallbackTimer)
  /\ lastOp' = Op("connectTimeout", NoId, "rejected")
  /\ UNCHANGED <<wsRef, readyState, closed, connected, reqVars, settled, waitState,
                 closeState>>
  /\ FailureBudget

\* ws.once("open"): arms the fallback timer
TransportOpen ==
  /\ UNCHANGED nonConn
  /\ readyState = "CONNECTING"
  /\ readyState' = "OPEN"
  /\ fallbackTimer' = TRUE
  /\ lastOp' = Op("wsopen", NoId, "open")
  /\ UNCHANGED <<wsRef, closed, connected, reqVars, settled, openState, connectTimer,
                 waitState, closeState>>

\* fallbackTimer fires: sendConnect(null)
FallbackFire ==
  /\ UNCHANGED nonConn
  /\ fallbackTimer
  /\ fallbackTimer' = FALSE
  /\ SendConnect
  /\ lastOp' = Op("fallback", NoId, ReqResult)
  /\ UNCHANGED <<wsRef, readyState, closed, connected, settled, waitState, closeState>>
  /\ FailureBudget

\* the socket emits "error": the listeners of open(), waitForClose(), close()
TransportError ==
  /\ UNCHANGED nonConn
  /\ readyState \in {"CONNECTING", "OPEN"}
  /\ readyState' = "CLOSING"
  /\ openState' = SettledOpen("rejected")
  /\ connectTimer' = SettledTimer(connectTimer)
  /\ fallbackTimer' = SettledTimer(fallbackTimer)
  /\ waitState' = IF waitState = "pending" THEN "resolved" ELSE waitState
  /\ connected' = IF waitState = "pending" THEN FALSE ELSE connected
  /\ closeState' = IF closeState = "pending" THEN "done" ELSE closeState
  /\ lastOp' = Op("wserror", NoId, "error")
  /\ UNCHANGED <<wsRef, closed, reqVars, settled>>
  /\ FailureBudget

\* the socket emits "close": the listeners of open(), waitForClose(), close()
TransportClose ==
  /\ UNCHANGED nonConn
  /\ readyState \in {"OPEN", "CLOSING"}
  /\ readyState' = "CLOSED"
  /\ openState' = IF connected THEN openState ELSE SettledOpen("rejected")
  /\ connectTimer' = IF connected THEN connectTimer ELSE SettledTimer(connectTimer)
  /\ fallbackTimer' = IF connected THEN fallbackTimer ELSE SettledTimer(fallbackTimer)
  /\ waitState' = IF waitState = "pending" THEN "resolved" ELSE waitState
  /\ connected' = IF waitState = "pending" THEN FALSE ELSE connected
  /\ closeState' = IF closeState = "pending" THEN "done" ELSE closeState
  /\ lastOp' = Op("wsclose", NoId, "close")
  /\ UNCHANGED <<wsRef, closed, reqVars, settled>>
  /\ FailureBudget

\* the 500 ms grace timer of close() fires
CloseGrace ==
  /\ UNCHANGED nonConn
  /\ closeState = "pending"
  /\ closeState' = "done"
  /\ lastOp' = Op("grace", NoId, "done")
  /\ UNCHANGED <<wsRef, readyState, closed, connected, reqVars, settled, openState,
                 connectTimer, fallbackTimer, waitState>>

\* ------------------------------------------------ a caller of the connection
ClientOpen ==
  /\ UNCHANGED nonConn
  /\ readyState = "NONE"
  /\ DoOpen
  /\ lastOp' = Op("open", NoId, "called")

ClientRequest ==
  /\ UNCHANGED nonConn
  /\ readyState # "NONE"
  /\ DoRequest("client")
  /\ lastOp' = Op("request", IF SocketOpen THEN nextId ELSE NoId, ReqResult)
  /\ UNCHANGED <<wsRef, readyState, closed, connected, settled, openState, connectTimer,
                 fallbackTimer, waitState, closeState>>

ClientClose ==
  /\ UNCHANGED nonConn
  /\ readyState # "NONE"
  /\ DoClose
  /\ lastOp' = Op("close", NoId, IF closed THEN "noop" ELSE "closed")

ClientWaitForClose ==
  /\ UNCHANGED nonConn
  /\ openState = "resolved"
  /\ waitState = "none"
  /\ DoWaitForClose
  /\ lastOp' = Op("waitForClose", NoId, "called")

\* ------------------------------------- forwarding passes and recent hashes
Passes == 1..MaxPass
AppIds == 1..MaxApp

\* retention of a recorded hash: 10 * 60 * 1000 ms
Retention == 10 * 60 * 1000
\* one step of the clock: more than the retention
ClockStep == Retention + 1

\* normalized gateway messages, as extractGatewayMessages() returns them
GwMsgs ==
  { [sessionKey |-> <<"agent:main:main">>, role |-> r, content |-> <<"hello">>,
     timestamp |-> 1000] : r \in {"assistant", "user"} }

\* the lists extractGatewayMessages() can return for one chat.send response:
\* a message up to MaxBatch times
Payloads == {[i \in 1..n |-> g] : g \in GwMsgs, n \in 0..MaxBatch}

\* hashGatewayMessage(): the digest of `${sessionKey}|${role}|${content}|${timestamp}`
\* (sha1 taken as injective on the string it is given)
hashGatewayMessage(m) ==
  m.sessionKey \o <<"|", m.role, "|">> \o m.content \o <<"|", ToString(m.timestamp)>>

Hashes == {hashGatewayMessage(g) : g \in GwMsgs}

\* pruneRecentHashes(): drops the entries older than the retention
pruneRecentHashes_never(hs, t) == hs
pruneRecentHashes(hs, t) ==
  [h \in Hashes |-> IF hs[h] # -1 /\ hs[h] < t - Retention THEN -1 ELSE hs[h]]

\* ------------------------------------------------------------ chat events
\* texts are sequences of tokens; " " and "\n" are white space
Runs == {"r1", "r2"}
NoRun == ""
MainKey == "agent:main:main"
NoKey == ""
NoTs == -1

IsWs(tok) == tok \in {" ", "\n"}

\* message.content: a string, an array of typed parts, or neither
StrContent(t) == [kind |-> "string", text |-> t, parts |-> <<>>]
PartsContent(ps) == [kind |-> "parts", text |-> <<>>, parts |-> ps]
OtherContent == [kind |-> "other", text |-> <<>>, parts |-> <<>>]
TextPart(t) == [type |-> "text", text |-> t]
ToolPart == [type |-> "toolCall", text |-> <<>>]

Contents ==
  {StrContent(t) : t \in {<<>>, <<" ">>, <<"Hel">>, <<"Hello">>}}
  \cup {PartsContent(ps) : ps \in {<<TextPart(<<"Hel">>), ToolPart, TextPart(<<"lo">>)>>,
                                   <<ToolPart>>}}
  \cup {OtherContent}

\* p.message: absent (<<>>) or one message
Messages == {<<>>} \cup {<<[content |-> c, timestamp |-> 1000]>> : c \in Contents}
\* a message without timestamp
Untimed == <<[content |-> StrContent(<<"Hello">>), timestamp |-> NoTs]>>

\* the frames the gateway broadcasts: chat events of a run, chat events that
\* lack runId or sessionKey, and events of other kinds
ChatEvt(st, r, k, m) == [evt |-> "chat", state |-> st, runId |-> r, sessionKey |-> k,
                         message |-> m]
Events ==
  {ChatEvt(st, "r1", MainKey, m) : st \in {"delta", "final"}, m \in Messages}
  \cup {ChatEvt(st, "r2", MainKey, m) : st \in {"delta", "final"}, m \in {<<>>, Untimed}}
  \cup {ChatEvt("error", r, MainKey, <<>>) : r \in Runs}
  \cup {ChatEvt(st, NoRun, MainKey, <<[content |-> StrContent(<<"Hello">>),
                                       timestamp |-> 1000]>>) : st \in {"delta", "final"}}
  \cup {ChatEvt(st, "r1", NoKey, <<[content |-> StrContent(<<"Hello">>),
                                    timestamp |-> 1000]>>) : st \in {"delta", "final"}}
  \cup {[evt |-> e, state |-> "", runId |-> NoRun, sessionKey |-> NoKey, message |-> <<>>] :
          e \in {"sessions.updated", "tick"}}

\* no chat event has been received
ChatIdle ==
  /\ pendingDeltas = [r \in Runs |-> <<>>]
  /\ deltas = [r \in Runs |-> <<>>]
  /\ lastEvt = <<>>
  /\ emitted = <<>>
  /\ pushedMsg = <<>>

\* the locals of a pass that is not running: rest is what is left of the query's
\* result (its head is the message being sent), req the id of the chat.send in
\* flight, batch what is left of the list pushGatewayMessages() was called with
\* (its head is the message being stored)
IdlePass == [pc |-> "idle", rest |-> <<>>, req |-> NoId, syncedIds |-> <<>>, batch |-> <<>>]

\* no forwarding pass has run
FwdIdle ==
  /\ fwd = [p \in Passes |-> IdlePass]
  /\ okSent = {}
  /\ failedSent = {}
  /\ resent = {}
  /\ sentKeys = {}
  /\ syncedSet = {}
  /\ lastStored = [h \in Hashes |-> -1]
  /\ dupes = {}
  /\ recentHashes = [h \in Hashes |-> -1]
  /\ now = 0

RelayIdle ==
  /\ running = TRUE
  /\ reconnectAttempt = 0
  /\ connRef = FALSE
  /\ pc = "idle"
  /\ initStep = 0
  /\ subscribed = FALSE
  /\ ivTimers = {}
  /\ brk = FALSE
  /\ closeAwait = FALSE

Init ==
  /\ ConnInit
  /\ RelayIdle
  /\ FwdIdle
  /\ ChatIdle
  /\ DispIdle
  /\ RestIdle
  /\ lastOp = Op("init", NoId, "init")

Next ==
  \/ ClientOpen
  \/ ClientRequest
  \/ ClientClose
  \/ ClientWaitForClose
  \/ \E f \in Frames : OnMessage(f)
  \/ \E i \in Ids : RequestTimeout(i)
  \/ ConnectTimeout
  \/ TransportOpen
  \/ FallbackFire
  \/ TransportError
  \/ TransportClose
  \/ CloseGrace

Spec == Init /\ [][Next]_vars

\* A caller of the connection and a gateway that sends responses only. What the
\* event loop guarantees the caller: the armed timer of a request fires.
NextSettle ==
  \/ ClientOpen
  \/ ClientRequest
  \/ ClientClose
  \/ \E f \in {g \in Frames : g.kind = "res"} : OnMessage(f)
  \/ \E i \in Ids : RequestTimeout(i)
  \/ ConnectTimeout
  \/ TransportOpen
  \/ FallbackFire
  \/ TransportError
  \/ TransportClose
  \/ CloseGrace

FairSettle ==
  /\ Init
  /\ [][NextSettle]_vars
  /\ \A i \in Ids : WF_vars(RequestTimeout(i))

\* ------------------------------------------------------------------ Relay
IntervalTimers == {"appPoll", "heartbeat", "sessionSync", "healthSync", "cronActionsPoll"}

\* the awaits of the initial pass: heartbeat, sessions, health, identity, skills,
\* cron jobs, history, forwarding
InitSteps == 8

relayCtl == <<running, reconnectAttempt, connRef, initStep, subscribed, ivTimers, brk,
              closeAwait>>

\* while (this.running): new GatewayConnection(config), then conn.open()
RunningAtLoopHead_always == TRUE
RunningAtLoopHead == running
LoopHead ==
  /\ UNCHANGED <<fwdVars, sideVars>>
  /\ pc = "loop"
  /\ IF RunningAtLoopHead
     THEN /\ wsRef' = TRUE
          /\ readyState' = "CONNECTING"
          /\ closed' = FALSE
          /\ connected' = FALSE
          /\ pending' = {}
          /\ timers' = {}
          /\ owner' = [i \in Ids |-> "none"]
          /\ wire' = {}
          /\ nextId' = 1
          /\ settled' = [i \in Ids |-> <<>>]
          /\ openState' = "pending"
          /\ connectTimer' = TRUE
          /\ fallbackTimer' = FALSE
          /\ waitState' = "none"
          /\ closeState' = "none"
          /\ connRef' = TRUE
          /\ initStep' = 0
          /\ brk' = FALSE
          /\ closeAwait' = FALSE
          /\ pc' = "opening"
          /\ lastOp' = Op("construct", NoId, "open")
          /\ UNCHANGED <<running, reconnectAttempt, subscribed, ivTimers>>
     ELSE /\ pc' = "stopped"
          /\ lastOp' = Op("exit", NoId, "loop")
          /\ UNCHANGED <<connVars, relayCtl>>

\* catch (err) { if (!this.running) break; ... }
CatchBreaks_always == TRUE
CatchBreaks == ~running

\* await conn.open() returns or throws: runConnected() up to its first await,
\* or the catch block
AfterOpen ==
  /\ UNCHANGED <<fwdVars, sideVars>>
  /\ pc = "opening"
  /\ openState \in {"resolved", "rejected"}
  /\ IF openState = "resolved"
     THEN /\ reconnectAttempt' = 0
          /\ subscribed' = TRUE
          /\ ivTimers' = IntervalTimers
          /\ initStep' = 1
          /\ pc' = "init"
          /\ UNCHANGED brk
     ELSE /\ brk' = CatchBreaks
          /\ pc' = "finally"
          /\ UNCHANGED <<reconnectAttempt, subscribed, ivTimers, initStep>>
  /\ lastOp' = Op("afterOpen", NoId, openState)
  /\ UNCHANGED <<connVars, running, connRef, closeAwait>>

\* every synchronization task is one try { ... } catch (err) { log }: what an
\* external call of the task throws or rejects with does not leave the task
TaskCatches_none == FALSE
TaskCatches == TRUE

\* one await of the initial pass returns, the task having failed at an external
\* call or not; after the last one, conn.waitForClose(). A failure the task did
\* not catch would leave runConnected() for the catch block of start()
InitStepDone ==
  /\ UNCHANGED <<fwdVars, sideVars>>
  /\ pc = "init"
  /\ \E failed \in BOOLEAN :
       /\ IF failed /\ ~TaskCatches
          THEN /\ brk' = CatchBreaks
               /\ pc' = "finally"
               /\ UNCHANGED <<connVars, initStep>>
          ELSE IF initStep < InitSteps
          THEN /\ initStep' = initStep + 1
               /\ pc' = pc
               /\ UNCHANGED <<connVars, brk>>
          ELSE /\ DoWaitForClose
               /\ pc' = "waiting"
               /\ UNCHANGED <<initStep, brk>>
       /\ lastOp' = [Op("initStep", NoId,
                        IF initStep < InitSteps THEN "next" ELSE "waitForClose")
                       EXCEPT !.type = IF failed THEN "failed" ELSE ""]
  /\ UNCHANGED <<running, reconnectAttempt, connRef, subscribed, ivTimers, closeAwait>>

\* the five clearInterval() calls of the finally block: the timers left armed
ClearIntervals_butHeartbeat(ts) == ts \cap {"heartbeat"}
ClearIntervals(ts) == {}

\* await conn.waitForClose() returns: the finally block of runConnected()
AfterWait ==
  /\ UNCHANGED <<fwdVars, sideVars>>
  /\ pc = "waiting"
  /\ waitState = "resolved"
  /\ subscribed' = FALSE
  /\ ivTimers' = ClearIntervals(ivTimers)
  /\ brk' = FALSE
  /\ pc' = "finally"
  /\ lastOp' = Op("teardown", NoId, "done")
  /\ UNCHANGED <<connVars, running, reconnectAttempt, connRef, initStep, closeAwait>>

\* finally of start(): await this.conn.close()
Finally ==
  /\ UNCHANGED <<fwdVars, sideVars>>
  /\ pc = "finally"
  /\ closeAwait' = (~closed /\ wsRef)
  /\ DoClose
  /\ pc' = "closing"
  /\ lastOp' = Op("close", NoId, IF closed THEN "noop" ELSE "closed")
  /\ UNCHANGED <<running, reconnectAttempt, connRef, initStep, subscribed, ivTimers, brk>>

\* the awaited close() returns: this.conn = null, the break or the backoff
CloseReturned_atOnce == TRUE
CloseReturned == ~closeAwait \/ closeState = "done"
AfterClose ==
  /\ UNCHANGED <<fwdVars, sideVars>>
  /\ pc = "closing"
  /\ CloseReturned
  /\ connRef' = FALSE
  /\ IF brk \/ ~running
     THEN /\ pc' = "stopped"
          /\ UNCHANGED reconnectAttempt
     ELSE /\ reconnectAttempt' = reconnectAttempt + 1
          /\ pc' = "sleep"
  /\ lastOp' = Op("afterClose", NoId, IF brk \/ ~running THEN "break" ELSE "backoff")
  /\ UNCHANGED <<connVars, running, initStep, subscribed, ivTimers, brk, closeAwait>>

\* await sleep(waitMs) returns
SleepDone ==
  /\ UNCHANGED <<fwdVars, sideVars>>
  /\ pc = "sleep"
  /\ pc' = "loop"
  /\ lastOp' = Op("sleepDone", NoId, "loop")
  /\ UNCHANGED <<connVars, relayCtl>>

\* stop()
Stop ==
  /\ UNCHANGED <<fwdVars, sideVars>>
  /\ pc # "idle"
  /\ running' = FALSE
  /\ IF connRef THEN DoClose ELSE UNCHANGED connVars
  /\ lastOp' = Op("stop", NoId, IF connRef /\ ~closed THEN "closed" ELSE "noop")
  /\ UNCHANGED <<reconnectAttempt, connRef, pc, initStep, subscribed, ivTimers, brk,
                 closeAwait>>

\* a setInterval timer fires and starts its task, which fails at an external
\* call or not; sessionSync and healthSync call conn.request() before their
\* first await. The rejection of a task that did not catch its failure is
\* handled nowhere (void task()) and ends the process
TickRequests(t) == IF t = "sessionSync" THEN 1 ELSE IF t = "healthSync" THEN 2 ELSE 0
Tick(t) ==
  /\ UNCHANGED <<fwdVars, sideVars>>
  /\ t \in ivTimers
  /\ IF TickRequests(t) = 0 \/ ~SocketOpen
     THEN UNCHANGED reqVars
     ELSE /\ nextId + TickRequests(t) - 1 <= IdCap
          /\ LET new == nextId..(nextId + TickRequests(t) - 1) IN
             /\ pending' = pending \cup new
             /\ timers' = timers \cup UNION {ArmTimeout(i) : i \in new}
             /\ owner' = [i \in Ids |-> IF i \in new THEN "task" ELSE owner[i]]
             /\ wire' = wire \cup new
             /\ nextId' = nextId + TickRequests(t)
  /\ \E failed \in BOOLEAN :
       /\ lastOp' = [Op("tick", NoId, t) EXCEPT !.type = IF failed THEN "failed" ELSE ""]
       /\ IF failed /\ ~TaskCatches
          THEN /\ pc' = "stopped"
               /\ ivTimers' = {}
               /\ UNCHANGED <<running, reconnectAttempt, connRef, initStep, subscribed, brk,
                              closeAwait>>
          ELSE UNCHANGED relayVars
  /\ UNCHANGED <<wsRef, readyState, closed, connected, settled, openState, connectTimer,
                 fallbackTimer, waitState, closeState>>

\* a task of the session that is past an await calls conn.request()
TaskRequest ==
  /\ UNCHANGED <<fwdVars, sideVars>>
  /\ initStep > 0
  /\ DoRequest("task")
  /\ lastOp' = Op("request", IF SocketOpen THEN nextId ELSE NoId, ReqResult)
  /\ UNCHANGED <<wsRef, readyState, closed, connected, settled, openState, connectTimer,
                 fallbackTimer, waitState, closeState, relayVars>>

InitRelay ==
  /\ ConnInit
  /\ running = TRUE
  /\ reconnectAttempt = 0
  /\ connRef = FALSE
  /\ pc = "loop"
  /\ initStep = 0
  /\ subscribed = FALSE
  /\ ivTimers = {}
  /\ brk = FALSE
  /\ closeAwait = FALSE
  /\ FwdIdle
  /\ ChatIdle
  /\ DispIdle
  /\ RestIdle
  /\ lastOp = Op("init", NoId, "init")

NextRelay ==
  \/ LoopHead
  \/ AfterOpen
  \/ InitStepDone
  \/ AfterWait
  \/ Finally
  \/ AfterClose
  \/ SleepDone
  \/ Stop
  \/ \E t \in IntervalTimers : Tick(t)
  \/ TaskRequest
  \/ \E f \in Frames : OnMessage(f)
  \/ \E i \in Ids : RequestTimeout(i)
  \/ ConnectTimeout
  \/ TransportOpen
  \/ FallbackFire
  \/ TransportError
  \/ TransportClose
  \/ CloseGrace

SpecRelay == InitRelay /\ [][NextRelay]_vars

\* What the event loop guarantees: a continuation whose promise is settled runs,
\* an armed timer fires, and a socket that is closing emits "close".
RelaySteps ==
  LoopHead \/ AfterOpen \/ InitStepDone \/ AfterWait \/ Finally \/ AfterClose \/ SleepDone
TimerSteps ==
  ConnectTimeout \/ FallbackFire \/ CloseGrace \/ \E i \in Ids : RequestTimeout(i)
ClosingSocketCloses == readyState = "CLOSING" /\ TransportClose

FairRelay ==
  /\ SpecRelay
  /\ WF_vars(RelaySteps)
  /\ WF_vars(TimerSteps)
  /\ WF_vars(ClosingSocketCloses)

\* ------------------------------------------------------ forwarding passes
\* the loop of pushGatewayMessages(): skips the messages whose hash is recorded;
\* what is left starts with the next message to store
RECURSIVE SkipSeen(_, _)
SkipSeen(b, hs) ==
  IF b = <<>> THEN <<>>
  ELSE IF hs[hashGatewayMessage(Head(b))] # -1 THEN SkipSeen(Tail(b), hs)
  ELSE b

\* RemoteStore getUnsyncedFromApp: the application messages not yet synced, in
\* the order they were stored
RECURSIVE UnsyncedFrom(_, _)
UnsyncedFrom(i, done) ==
  IF i > MaxApp THEN <<>>
  ELSE (IF i \in done THEN <<>> ELSE <<i>>) \o UnsyncedFrom(i + 1, done)
getUnsyncedFromApp == UnsyncedFrom(1, syncedSet)

Elems(q) == {q[k] : k \in 1..Len(q)}

\* RemoteStore markSynced
markSynced(ids) == syncedSet \cup Elems(ids)

\* if (sent && message?._id) syncedIds.push(message._id)
Collect_always(sent, ids, m) == Append(ids, m)
Collect(sent, ids, m) == IF sent THEN Append(ids, m) ELSE ids

\* typeof message?._id === "string": the documents RemoteStore returns carry
\* their document id, a string
IdIsString(m) == m \in AppIds

\* sendToGateway(): the idempotencyKey of the chat.send for message m; without
\* a string _id it is a fresh randomUUID()
idempotencyKey_random(m) == [kind |-> "uuid", v |-> nextId]
idempotencyKey(m) ==
  IF IdIsString(m) THEN [kind |-> "id", v |-> m] ELSE [kind |-> "uuid", v |-> nextId]

\* the for loop of forwardUnsyncedAppMessages() with lst left to send and ids
\* collected; ok and failed are the outcomes so far. sendToGateway() sends the
\* request and suspends; on a socket that is not open every request left
\* rejects at once; after the loop, markSynced is called when ids were collected
SendFrom(p, lst, ids, ok, failed) ==
  IF lst # <<>> /\ SocketOpen
  THEN /\ DoRequest("task")
       /\ fwd' = [fwd EXCEPT ![p] = [pc |-> "await_send", rest |-> lst, req |-> nextId,
                                     syncedIds |-> ids, batch |-> <<>>]]
       /\ okSent' = ok
       /\ failedSent' = failed
       /\ resent' = resent \cup (IF Head(lst) \in ok THEN {Head(lst)} ELSE {})
       /\ sentKeys' = sentKeys \cup {[msg |-> Head(lst), key |-> idempotencyKey(Head(lst))]}
  ELSE /\ UNCHANGED <<reqVars, resent, sentKeys>>
       /\ fwd' = [fwd EXCEPT ![p] =
                    IF ids # <<>>
                    THEN [IdlePass EXCEPT !.pc = "mark", !.syncedIds = ids]
                    ELSE IdlePass]
       /\ okSent' = ok
       /\ failedSent' = failed \cup Elems(lst)

connRest == <<wsRef, readyState, closed, connected, settled, openState, connectTimer,
              fallbackTimer, waitState, closeState>>

\* the appPoll timer (or the initial pass) runs forwardUnsyncedAppMessages() up
\* to its first chat.send: the query throws, or returns the unsynced messages
ForwardBegin(p) ==
  /\ fwd[p].pc = "idle"
  /\ \A q \in Passes : q < p => fwd[q].pc # "idle"
  /\ \/ UNCHANGED <<reqVars, fwd, okSent, failedSent, resent, sentKeys>>
     \/ SendFrom(p, getUnsyncedFromApp, <<>>, okSent, failedSent)
  /\ lastOp' = Op("forward", NoId, "pass")
  /\ UNCHANGED <<connRest, relayVars, sideVars, syncedSet, lastStored, dupes, recentHashes, now>>

\* await conn.request("chat.send") returns or throws in sendToGateway(); on
\* success pushGatewayMessages() prunes and issues its first mutation
SendSettled(p) ==
  /\ fwd[p].pc = "await_send"
  /\ settled[fwd[p].req] # <<>>
  /\ LET m == Head(fwd[p].rest)
         sent == settled[fwd[p].req][1] = "resolved"
     IN IF ~sent
        THEN /\ SendFrom(p, Tail(fwd[p].rest), Collect(FALSE, fwd[p].syncedIds, m),
                         okSent, failedSent \cup {m})
             /\ UNCHANGED recentHashes
             /\ lastOp' = Op("forward", NoId, "pass")
        ELSE \E b \in Payloads :
               LET hs == IF b = <<>> THEN recentHashes
                         ELSE pruneRecentHashes(recentHashes, now)
                   left == SkipSeen(b, hs)
               IN /\ recentHashes' = hs
                  /\ lastOp' = Op("forward", NoId, IF b = <<>> THEN "pass" ELSE "pruned")
                  /\ IF left = <<>>
                     THEN SendFrom(p, Tail(fwd[p].rest), Collect(TRUE, fwd[p].syncedIds, m),
                                   okSent \cup {m}, failedSent)
                     ELSE /\ fwd' = [fwd EXCEPT ![p].pc = "await_push", ![p].batch = left]
                          /\ okSent' = okSent \cup {m}
                          /\ UNCHANGED <<reqVars, failedSent, resent, sentKeys>>
  /\ UNCHANGED <<connRest, relayVars, sideVars, syncedSet, lastStored, dupes, now>>

\* this.recentGatewayMessageHashes.set(hash, nowMs()) follows the awaited
\* mutation inside the try: it runs only if the mutation did not throw
RecordHash_before(hs, h, stored) == [hs EXCEPT ![h] = now]
RecordHash(hs, h, stored) == IF stored THEN [hs EXCEPT ![h] = now] ELSE hs

\* the pushFromGateway mutation of pushGatewayMessages() returns (the hash is
\* recorded) or throws (it is not); then the rest of the batch, then the rest
\* of the for loop of the pass
PushReturns(p) ==
  /\ fwd[p].pc = "await_push"
  /\ LET h == hashGatewayMessage(Head(fwd[p].batch))
         m == Head(fwd[p].rest)
     IN \E stored \in BOOLEAN :
          LET hs == RecordHash(recentHashes, h, stored)
              left == SkipSeen(Tail(fwd[p].batch), hs)
          IN /\ recentHashes' = hs
             /\ lastOp' = Op("forward", NoId, IF stored THEN "pass" ELSE "pushFailed")
             /\ lastStored' = IF stored THEN [lastStored EXCEPT ![h] = now] ELSE lastStored
             /\ dupes' = IF stored /\ lastStored[h] # -1 /\ now - lastStored[h] <= Retention
                         THEN dupes \cup {h} ELSE dupes
             /\ IF left = <<>>
                THEN SendFrom(p, Tail(fwd[p].rest), Collect(TRUE, fwd[p].syncedIds, m),
                              okSent, failedSent)
                ELSE /\ fwd' = [fwd EXCEPT ![p].batch = left]
                     /\ UNCHANGED <<reqVars, okSent, failedSent, resent, sentKeys>>
  /\ UNCHANGED <<connRest, relayVars, sideVars, syncedSet, now>>

\* the markSynced mutation returns or throws
MarkReturns(p) ==
  /\ fwd[p].pc = "mark"
  /\ \E marked \in BOOLEAN :
       syncedSet' = IF marked THEN markSynced(fwd[p].syncedIds) ELSE syncedSet
  /\ fwd' = [fwd EXCEPT ![p] = IdlePass]
  /\ lastOp' = Op("forward", NoId, "pass")
  /\ UNCHANGED <<connVars, relayVars, sideVars, okSent, failedSent, resent, sentKeys, lastStored,
                 dupes, recentHashes, now>>

\* time passes
AdvanceClock ==
  /\ now < MaxClock * ClockStep
  /\ now' = now + ClockStep
  /\ lastOp' = Op("forward", NoId, "pass")
  /\ UNCHANGED <<connVars, relayVars, sideVars, fwd, okSent, failedSent, resent, sentKeys,
                 syncedSet, lastStored, dupes, recentHashes>>

\* the response frames
ResFrames == {f \in Frames : f.kind = "res" /\ f.htype = "other"}

\* a connected session: the handshake is done, runConnected() has armed its
\* timers and MaxApp application messages wait in RemoteStore
InitFwd ==
  /\ wsRef = TRUE
  /\ readyState = "OPEN"
  /\ closed = FALSE
  /\ connected = TRUE
  /\ pending = {}
  /\ timers = {}
  /\ owner = [i \in Ids |-> "none"]
  /\ wire = {}
  /\ nextId = 1
  /\ settled = [i \in Ids |-> <<>>]
  /\ openState = "resolved"
  /\ connectTimer = FALSE
  /\ fallbackTimer = FALSE
  /\ waitState = "none"
  /\ closeState = "none"
  /\ running = TRUE
  /\ reconnectAttempt = 0
  /\ connRef = TRUE
  /\ pc = "session"
  /\ initStep = InitSteps
  /\ subscribed = TRUE
  /\ ivTimers = IntervalTimers
  /\ brk = FALSE
  /\ closeAwait = FALSE
  /\ FwdIdle
  /\ ChatIdle
  /\ DispIdle
  /\ RestIdle
  /\ lastOp = Op("init", NoId, "init")

NextFwd ==
  \/ \E p \in Passes : ForwardBegin(p)
  \/ \E p \in Passes : SendSettled(p)
  \/ \E p \in Passes : PushReturns(p)
  \/ \E p \in Passes : MarkReturns(p)
  \/ AdvanceClock
  \/ \E f \in ResFrames : OnMessage(f)
  \/ \E i \in Ids : RequestTimeout(i)
  \/ TransportClose

SpecFwd == InitFwd /\ [][NextFwd]_vars

\* ------------------------------------------- onFrame of runConnected()
\* parts.map((c) => c.text).join("\n")
RECURSIVE JoinNl(_)
JoinNl(ps) ==
  IF ps = <<>> THEN <<>>
  ELSE IF Len(ps) = 1 THEN ps[1].text
  ELSE ps[1].text \o <<"\n">> \o JoinNl(Tail(ps))

IsTextPart(c) == c.type = "text"

\* the text of message.content: the text parts joined by newlines, or the
\* string itself, or ""
Flatten(c) ==
  IF c.kind = "parts" THEN JoinNl(SelectSeq(c.parts, IsTextPart))
  ELSE IF c.kind = "string" THEN c.text
  ELSE <<>>

\* String.prototype.trim()
RECURSIVE TrimLeft(_)
TrimLeft(t) == IF t # <<>> /\ IsWs(Head(t)) THEN TrimLeft(Tail(t)) ELSE t
RECURSIVE TrimRight(_)
TrimRight(t) ==
  IF t # <<>> /\ IsWs(t[Len(t)]) THEN TrimRight(SubSeq(t, 1, Len(t) - 1)) ELSE t
Trim(t) == TrimRight(TrimLeft(t))

\* text.slice(0, 4000)
Slice(t) == SubSeq(t, 1, IF Len(t) < ContentCap THEN Len(t) ELSE ContentCap)

\* this.pendingDeltas.set(runId, entry)
SetDelta_keepFirst(old, new) == IF old # <<>> THEN old ELSE <<new>>
SetDelta(old, new) == <<new>>

\* this.pendingDeltas.delete(runId), before it is known whether the final emits
DeleteDelta_whenEmitted(old, emits) == IF emits THEN <<>> ELSE old
DeleteDelta(old, emits) == <<>>

\* const finalText = text || delta?.text || ""
FinalText_deltaFirst(text, delta) ==
  IF delta # <<>> THEN delta[1].text ELSE text
FinalText_noFallback(text, delta) == text
FinalText(text, delta) ==
  IF text # <<>> THEN text
  ELSE IF delta # <<>> THEN delta[1].text
  ELSE <<>>

\* if (finalText.trim())
Emits(t) == Trim(t) # <<>>

\* pushChatEvent(payload) up to its mutation: the arguments of pushFromGateway,
\* or nothing for a text that is empty after trimming
pushChatEvent(pl) ==
  IF pl = <<>> \/ pl[1].sessionKey = NoKey THEN <<>>
  ELSE IF Trim(pl[1].content) = <<>> THEN <<>>
  ELSE <<[sessionKey |-> pl[1].sessionKey,
          role |-> IF pl[1].role = "user" THEN "user"
                   ELSE IF pl[1].role = "assistant" THEN "assistant" ELSE "system",
          content |-> Slice(pl[1].content),
          timestamp |-> pl[1].timestamp]>>

\* the frame is a chat event that carries runId and sessionKey
OfRun(e) == e.evt = "chat" /\ e.runId # NoRun /\ e.sessionKey # NoKey

\* the text a chat event carries
EvtText(e) == IF e.message # <<>> THEN Flatten(e.message[1].content) ELSE <<>>

\* onFrame(frame): a delta with text replaces the entry of its run; a final
\* takes the entry of its run away and hands the final text, or else the
\* entry's text, to pushChatEvent(); sessions.updated starts syncSessions()
OnFrame(e) ==
  /\ subscribed
  /\ (OfRun(e) /\ e.state = "delta") => Len(deltas[e.runId]) < MaxDeltas
  /\ lastEvt' = <<e>>
  /\ IF OfRun(e) /\ e.state = "delta"
     THEN /\ pendingDeltas' =
               IF e.message # <<>> /\ EvtText(e) # <<>>
               THEN [pendingDeltas EXCEPT ![e.runId] =
                       SetDelta(@, [sessionKey |-> e.sessionKey, text |-> EvtText(e),
                                    timestamp |-> IF e.message[1].timestamp # NoTs
                                                  THEN e.message[1].timestamp ELSE now])]
               ELSE pendingDeltas
          /\ deltas' = [deltas EXCEPT ![e.runId] = Append(@, EvtText(e))]
          /\ emitted' = <<>>
          /\ pushedMsg' = <<>>
     ELSE IF OfRun(e) /\ e.state = "final"
     THEN LET delta == pendingDeltas[e.runId]
              finalText == FinalText(EvtText(e), delta)
              pl == IF Emits(finalText)
                    THEN <<[sessionKey |-> e.sessionKey, role |-> "assistant",
                            content |-> finalText,
                            timestamp |-> IF delta # <<>> THEN delta[1].timestamp ELSE now]>>
                    ELSE <<>>
          IN /\ pendingDeltas' = [pendingDeltas EXCEPT ![e.runId] =
                                     DeleteDelta(@, Emits(finalText))]
             /\ deltas' = [deltas EXCEPT ![e.runId] = <<>>]
             /\ emitted' = pl
             /\ pushedMsg' = pushChatEvent(pl)
     ELSE /\ emitted' = <<>>
          /\ pushedMsg' = <<>>
          /\ UNCHANGED <<pendingDeltas, deltas>>
  /\ IF e.evt = "sessions.updated" THEN DoRequest("task") ELSE UNCHANGED reqVars
  /\ lastOp' = Op("frame", NoId, e.evt)
  /\ UNCHANGED <<connRest, relayVars, fwdVars, dispVars, restVars>>

\* a connected session that has received no chat event
InitChat ==
  /\ wsRef = TRUE
  /\ readyState = "OPEN"
  /\ closed = FALSE
  /\ connected = TRUE
  /\ pending = {}
  /\ timers = {}
  /\ owner = [i \in Ids |-> "none"]
  /\ wire = {}
  /\ nextId = 1
  /\ settled = [i \in Ids |-> <<>>]
  /\ openState = "resolved"
  /\ connectTimer = FALSE
  /\ fallbackTimer = FALSE
  /\ waitState = "none"
  /\ closeState = "none"
  /\ running = TRUE
  /\ reconnectAttempt = 0
  /\ connRef = TRUE
  /\ pc = "session"
  /\ initStep = InitSteps
  /\ subscribed = TRUE
  /\ ivTimers = IntervalTimers
  /\ brk = FALSE
  /\ closeAwait = FALSE
  /\ FwdIdle
  /\ ChatIdle
  /\ DispIdle
  /\ RestIdle
  /\ lastOp = Op("init", NoId, "init")

NextChat == \E e \in Events : OnFrame(e)

SpecChat == InitChat /\ [][NextChat]_vars

\* ------------------------------------------------------ reconnect backoff
BackoffCap == 30000
BackoffBase == 1000
BackoffExpCap == 5
JitterRange == 500

Min(a, b) == IF a < b THEN a ELSE b

\* Math.min(30000, 1000 * 2 ** Math.min(this.reconnectAttempt, 5))
Backoff_uncapped(k) == BackoffBase * 2^k
Backoff(k) == Min(BackoffCap, BackoffBase * 2^Min(k, BackoffExpCap))

\* Math.floor(Math.random() * 500)
Jitters == 0..(JitterRange - 1)

\* one turn of the loop of start() whose open() failed while the relay runs:
\* the catch, close(), reconnectAttempt += 1, and the wait is computed
OpenFailsRetry(j) ==
  /\ pc = "loop"
  /\ running
  /\ reconnectAttempt < MaxRetry
  /\ reconnectAttempt' = reconnectAttempt + 1
  /\ waitMs' = Backoff(reconnectAttempt') + j
  /\ pc' = "sleep"
  /\ lastOp' = Op("retry", NoId, "failed")
  /\ UNCHANGED <<connVars, running, connRef, initStep, subscribed, ivTimers, brk, closeAwait,
                 fwdVars, chatVars, dispVars, inLog, inSeen, cron, polls>>

\* one turn of the loop whose open() succeeded (reconnectAttempt = 0) and whose
\* session has ended while the relay runs: close(), reconnectAttempt += 1, and
\* the wait is computed
SessionEndsRetry(j) ==
  /\ pc = "loop"
  /\ running
  /\ reconnectAttempt' = 0 + 1
  /\ waitMs' = Backoff(reconnectAttempt') + j
  /\ pc' = "sleep"
  /\ lastOp' = Op("retry", NoId, "opened")
  /\ UNCHANGED <<connVars, running, connRef, initStep, subscribed, ivTimers, brk, closeAwait,
                 fwdVars, chatVars, dispVars, inLog, inSeen, cron, polls>>

\* start() is at the head of its loop for the first time
InitBackoff ==
  /\ ConnInit
  /\ running = TRUE
  /\ reconnectAttempt = 0
  /\ connRef = FALSE
  /\ pc = "loop"
  /\ initStep = 0
  /\ subscribed = FALSE
  /\ ivTimers = {}
  /\ brk = FALSE
  /\ closeAwait = FALSE
  /\ FwdIdle
  /\ ChatIdle
  /\ DispIdle
  /\ RestIdle
  /\ lastOp = Op("init", NoId, "init")

NextBackoff ==
  \/ \E j \in Jitters : OpenFailsRetry(j)
  \/ \E j \in Jitters : SessionEndsRetry(j)
  \/ SleepDone

SpecBackoff == InitBackoff /\ [][NextBackoff]_vars

\* ------------------------------------------------- processCronActions()
\* cmdMap: the action names that have a command
CronCommands == {"enable", "disable", "run", "remove"}

\* the lists cronJobs:getPendingActions can return: each action has its id and
\* a name, one that has a command or one that has none
CronNames == {"run", "bogus"}
CronLists ==
  UNION {{[i \in 1..n |-> [id |-> i, name |-> f[i]]] : f \in [1..n -> CronNames]} :
           n \in 0..MaxActions}

cronRest == <<connVars, relayVars, fwdVars, chatVars, dispVars, waitMs, inLog, inSeen, polls>>

\* the query of a pass returns: nothing to do, or the loop starts on the first action
CronQuery(acts) ==
  /\ cron.pc = "idle"
  /\ cron' = IF acts = <<>> THEN CronIdle ELSE [CronIdle EXCEPT !.pc = "exec", !.todo = acts]
  /\ lastOp' = Op("cron", NoId, IF acts = <<>> THEN "end" ELSE "query")
  /\ UNCHANGED cronRest

\* the body of the inner try up to its await: execSync(cmd) of a name that has
\* a command returns, and completeAction is called with status done; if it
\* throws, or the name has no command, the catch calls it with status error
CronExec(ok) ==
  /\ cron.pc = "exec"
  /\ LET a == cron.todo[1] IN
     cron' = IF a.name \in CronCommands /\ ok
             THEN [cron EXCEPT !.pc = "done"]
             ELSE [cron EXCEPT !.pc = "error", !.failed = @ \cup {a.id}]
  /\ lastOp' = Op("cron", NoId, "exec")
  /\ UNCHANGED cronRest

\* the loop goes on to the next action; after the last one syncCronJobs() and
\* the pass is over
CronAdvance(c) ==
  IF Len(c.todo) > 1 THEN [c EXCEPT !.pc = "exec", !.todo = Tail(@)]
  ELSE [c EXCEPT !.pc = "idle", !.todo = <<>>]

\* the completeAction mutation settles: accepted, the loop goes on; rejected
\* with status done, the inner catch calls it again with status error; rejected
\* with status error, the rejection leaves the loop for the outer catch
CronReport(ok) ==
  /\ cron.pc \in {"done", "error"}
  /\ LET a == cron.todo[1] IN
     cron' = IF ok
             THEN CronAdvance([cron EXCEPT !.reported = @ \cup {<<a.id, cron.pc>>}])
             ELSE IF cron.pc = "done"
             THEN [cron EXCEPT !.pc = "error"]
             ELSE [cron EXCEPT !.pc = "idle", !.todo = <<>>, !.left = Tail(cron.todo)]
  /\ lastOp' = Op("cron", NoId, IF cron'.pc = "idle" THEN "end" ELSE "report")
  /\ UNCHANGED cronRest

\* a connected session whose cronActionsPoll timer has not fired
InitCron ==
  /\ wsRef = TRUE
  /\ readyState = "OPEN"
  /\ closed = FALSE
  /\ connected = TRUE
  /\ pending = {}
  /\ timers = {}
  /\ owner = [i \in Ids |-> "none"]
  /\ wire = {}
  /\ nextId = 1
  /\ settled = [i \in Ids |-> <<>>]
  /\ openState = "resolved"
  /\ connectTimer = FALSE
  /\ fallbackTimer = FALSE
  /\ waitState = "none"
  /\ closeState = "none"
  /\ running = TRUE
  /\ reconnectAttempt = 0
  /\ connRef = TRUE
  /\ pc = "session"
  /\ initStep = InitSteps
  /\ subscribed = TRUE
  /\ ivTimers = IntervalTimers
  /\ brk = FALSE
  /\ closeAwait = FALSE
  /\ FwdIdle
  /\ ChatIdle
  /\ DispIdle
  /\ RestIdle
  /\ lastOp = Op("init", NoId, "init")

NextCron ==
  \/ \E acts \in CronLists : CronQuery(acts)
  \/ \E ok \in BOOLEAN : CronExec(ok)
  \/ \E ok \in BOOLEAN : CronReport(ok)

SpecCron == InitCron /\ [][NextCron]_vars

\* ------------------------- passes of processCronActions() started by the timer
\* cronJobs:getPendingActions: the actions whose status is pending, in table order
RECURSIVE PendingFrom(_, _)
PendingFrom(i, table) ==
  IF i > MaxPolled THEN <<>>
  ELSE IF table[i] = "pending" THEN <<i>> \o PendingFrom(i + 1, table)
  ELSE PendingFrom(i + 1, table)
getPendingActions(table) == PendingFrom(1, table)

\* cronJobs:completeAction: ctx.db.patch(actionId, {status, ...})
completeAction(table, a, status) == [table EXCEPT ![a] = status]

pollRest == <<connVars, relayVars, fwdVars, chatVars, dispVars, waitMs, inLog, inSeen, cron>>

\* the cronActionsPoll timer fires: void this.processCronActions(), whatever an
\* earlier pass is doing; the query of the new pass returns what is pending
PollTick(p) ==
  /\ polls.pass[p].pc = "idle"
  /\ LET acts == getPendingActions(polls.table) IN
     /\ polls' = [polls EXCEPT !.pass[p] =
                    IF acts = <<>> THEN PollIdle
                    ELSE [pc |-> "exec", todo |-> acts, status |-> ""]]
     /\ lastOp' = Op("poll", p, IF acts = <<>> THEN "end" ELSE "query")
  /\ UNCHANGED pollRest

\* execSync(cmd) for the action the loop of the pass is at: the command runs and
\* returns or throws; the pass then awaits completeAction with done or error
PollExec(p, ok) ==
  /\ polls.pass[p].pc = "exec"
  /\ LET a == polls.pass[p].todo[1] IN
     /\ polls.execs[a] < MaxExec
     /\ polls' = [polls EXCEPT !.execs[a] = @ + 1,
                               !.pass[p].pc = "report",
                               !.pass[p].status = IF ok THEN "done" ELSE "error"]
     /\ lastOp' = Op("poll", p, "exec")
  /\ UNCHANGED pollRest

\* the loop of a pass goes on to its next action; after the last one
\* syncCronJobs() and the pass is over
PollAdvance(ps) ==
  IF Len(ps.todo) > 1 THEN [pc |-> "exec", todo |-> Tail(ps.todo), status |-> ""]
  ELSE PollIdle

\* the completeAction mutation of a pass settles: accepted, the table is patched
\* and the loop goes on; rejected with status done, the inner catch calls it
\* again with status error; rejected with status error, the pass is over
PollReport(p, ok) ==
  /\ polls.pass[p].pc = "report"
  /\ LET ps == polls.pass[p]
         a == ps.todo[1] IN
     polls' = IF ok
              THEN [polls EXCEPT !.table = completeAction(@, a, ps.status),
                                 !.reports[a] = @ + 1,
                                 !.pass[p] = PollAdvance(ps)]
              ELSE IF ps.status = "done"
              THEN [polls EXCEPT !.pass[p].status = "error"]
              ELSE [polls EXCEPT !.pass[p] = PollIdle]
  /\ lastOp' = Op("poll", p, IF polls'.pass[p].pc = "idle" THEN "end" ELSE "report")
  /\ UNCHANGED pollRest

\* a connected session whose cronActionsPoll timer has not fired
InitPoll == InitCron

NextPoll ==
  \/ \E p \in Pollers : PollTick(p)
  \/ \E p \in Pollers, ok \in BOOLEAN : PollExec(p, ok)
  \/ \E p \in Pollers, ok \in BOOLEAN : PollReport(p, ok)

SpecPoll == InitPoll /\ [][NextPoll]_vars

\* ------------------------------------ messages pushed from the gateway side
\* the roles a gateway message can carry
RawRoles == {"user", "assistant", "tool", "developer"}
StoreRoles == {"user", "assistant", "system"}

\* a text one unit longer than the cap
LongText == [i \in 1..(ContentCap + 1) |-> "a"]

InContents ==
  {StrContent(t) : t \in {<<"Hello">>, <<" ">>, LongText}}
  \cup {PartsContent(<<TextPart(<<"Hel">>), ToolPart, TextPart(<<"lo">>)>>)}

\* the messages of a chat.history payload or of a chat.send response
RawMsgs == [sessionKey : {MainKey}, role : RawRoles, content : InContents, timestamp : {1000}]

\* the payloads onFrame hands to pushChatEvent(): role assistant, a text that
\* is not empty after trimming
FinalPayloads ==
  {[sessionKey |-> MainKey, role |-> "assistant", content |-> t, timestamp |-> 1000] :
     t \in {<<"Hello">>, LongText}}

\* extractGatewayMessages(frame) for one raw message: kept when it has a
\* sessionKey and a content string that is not empty; the role is kept when it
\* is one of the three and is assistant otherwise; the content is taken as it is
extractGatewayMessages(m) ==
  IF m.sessionKey = NoKey \/ m.content.kind # "string" \/ m.content.text = <<>> THEN <<>>
  ELSE <<[sessionKey |-> m.sessionKey,
          role |-> IF m.role \in StoreRoles THEN m.role ELSE "assistant",
          content |-> m.content.text,
          timestamp |-> m.timestamp]>>

\* the loop of syncHistoryForSessions() over rawMessages, for one message: tool
\* messages and texts empty after trimming are skipped; the role is user,
\* assistant or else system; the content is cut at the cap
historyMessage(sessionKey, m) ==
  IF m.role \in {"toolResult", "tool"} THEN <<>>
  ELSE IF Trim(Flatten(m.content)) = <<>> THEN <<>>
  ELSE <<[sessionKey |-> sessionKey,
          role |-> IF m.role = "user" THEN "user"
                   ELSE IF m.role = "assistant" THEN "assistant" ELSE "system",
          content |-> Slice(Flatten(m.content)),
          timestamp |-> m.timestamp]>>

\* the key of this.recentGatewayMessageHashes for a message
InHash(m) == hashGatewayMessage([m EXCEPT !.sessionKey = <<m.sessionKey>>])

\* the pushFromGateway mutation called with args settles: accepted, RemoteStore
\* has the message
Delivered(path, rawRole, args, ok) ==
  IF args # <<>> /\ ok
  THEN /\ Len(inLog) < MaxPushes
       /\ inLog' = Append(inLog, [path |-> path, rawRole |-> rawRole, msg |-> args[1]])
  ELSE UNCHANGED inLog

inRest == <<connVars, relayVars, fwdVars, dispVars, waitMs, cron, polls, pendingDeltas,
            deltas, lastEvt, emitted>>

\* pushChatEvent(payload), called by onFrame for a final event
FinalPush(pl, ok) ==
  /\ pushedMsg' = pushChatEvent(<<pl>>)
  /\ Delivered("final", pl.role, pushedMsg', ok)
  /\ lastOp' = Op("push", NoId, "final")
  /\ UNCHANGED <<inRest, inSeen>>

\* syncHistoryForSessions(): one message of the chat.history payload of a
\* session is normalized and pushed; a rejected mutation is skipped
HistoryPush(m, ok) ==
  /\ pushedMsg' = historyMessage(MainKey, m)
  /\ Delivered("history", m.role, pushedMsg', ok)
  /\ lastOp' = Op("push", NoId, "history")
  /\ UNCHANGED <<inRest, inSeen>>

\* sendToGateway(): pushGatewayMessages(extractGatewayMessages(frame)) for a
\* chat.send response that carries one message: skipped when its hash is
\* recorded, else pushed, and the hash is recorded when the mutation returned
ResponsePush(m, ok) ==
  /\ LET msgs == extractGatewayMessages(m)
         args == IF msgs # <<>> /\ InHash(msgs[1]) \notin inSeen THEN msgs ELSE <<>>
     IN /\ pushedMsg' = args
        /\ Delivered("response", m.role, args, ok)
        /\ inSeen' = IF args # <<>> /\ ok THEN inSeen \cup {InHash(args[1])} ELSE inSeen
  /\ lastOp' = Op("push", NoId, "response")
  /\ UNCHANGED inRest

\* a connected session that has pushed nothing
InitInbound ==
  /\ wsRef = TRUE
  /\ readyState = "OPEN"
  /\ closed = FALSE
  /\ connected = TRUE
  /\ pending = {}
  /\ timers = {}
  /\ owner = [i \in Ids |-> "none"]
  /\ wire = {}
  /\ nextId = 1
  /\ settled = [i \in Ids |-> <<>>]
  /\ openState = "resolved"
  /\ connectTimer = FALSE
  /\ fallbackTimer = FALSE
  /\ waitState = "none"
  /\ closeState = "none"
  /\ running = TRUE
  /\ reconnectAttempt = 0
  /\ connRef = TRUE
  /\ pc = "session"
  /\ initStep = InitSteps
  /\ subscribed = TRUE
  /\ ivTimers = IntervalTimers
  /\ brk = FALSE
  /\ closeAwait = FALSE
  /\ FwdIdle
  /\ ChatIdle
  /\ DispIdle
  /\ RestIdle
  /\ lastOp = Op("init", NoId, "init")

NextInbound ==
  \/ \E pl \in FinalPayloads, ok \in BOOLEAN : FinalPush(pl, ok)
  \/ \E m \in RawMsgs, ok \in BOOLEAN : HistoryPush(m, ok)
  \/ \E m \in RawMsgs, ok \in BOOLEAN : ResponsePush(m, ok)

SpecInbound == InitInbound /\ [][NextInbound]_vars

\* --------------------------------------------- the subscribers of a connection

\* onFrame(handler): this.handlers.add(handler); a handler that is in the Set
\* already keeps its place
Subscribe(h) ==
  /\ handlers' = IF h \in Registered THEN handlers ELSE Append(handlers, h)
  /\ lastOp' = Op("onFrame", NoId, IF h \in Registered THEN "kept" ELSE "added")
  /\ UNCHANGED <<connVars, relayVars, fwdVars, chatVars, rx, expect, rxCount, restVars>>

\* the function onFrame() returned is called: this.handlers.delete(handler)
Unsubscribe(h) ==
  /\ handlers' = SelectSeq(handlers, LAMBDA x : x # h)
  /\ lastOp' = Op("off", NoId, IF h \in Registered THEN "deleted" ELSE "absent")
  /\ UNCHANGED <<connVars, relayVars, fwdVars, chatVars, rx, expect, rxCount, restVars>>

\* a connected session whose connection has no subscriber yet
InitDispatch ==
  /\ wsRef = TRUE
  /\ readyState = "OPEN"
  /\ closed = FALSE
  /\ connected = TRUE
  /\ pending = {}
  /\ timers = {}
  /\ owner = [i \in Ids |-> "none"]
  /\ wire = {}
  /\ nextId = 1
  /\ settled = [i \in Ids |-> <<>>]
  /\ openState = "resolved"
  /\ connectTimer = FALSE
  /\ fallbackTimer = FALSE
  /\ waitState = "none"
  /\ closeState = "none"
  /\ running = TRUE
  /\ reconnectAttempt = 0
  /\ connRef = TRUE
  /\ pc = "session"
  /\ initStep = InitSteps
  /\ subscribed = TRUE
  /\ ivTimers = IntervalTimers
  /\ brk = FALSE
  /\ closeAwait = FALSE
  /\ FwdIdle
  /\ ChatIdle
  /\ DispIdle
  /\ RestIdle
  /\ lastOp = Op("init", NoId, "init")

\* what the gateway sends to a connected session: answers, events, the
\* challenge and bytes that do not parse
DispFrames == ResFrames \cup {f \in Frames : f.kind # "res"}

NextDispatch ==
  \/ \E h \in Subs : Subscribe(h)
  \/ \E h \in Subs : Unsubscribe(h)
  \/ \E f \in DispFrames : OnMessage(f)

SpecDispatch == InitDispatch /\ [][NextDispatch]_vars

\* ------------------------------------------------- correlation and close

\* C1: a response frame settles exactly the pending request that has its id
\* (resolved when ok, rejected when ok is false) and removes it; every other
\* pending request stays pending and is not settled by that frame, whatever
\* the order in which requests were sent.
C1_ResponsesCorrelateById ==
  [][lastOp'.op = "message" =>
       /\ \A j \in pending \ {lastOp'.id} :
            j \in pending' /\ settled'[j] = settled[j]
       /\ (lastOp'.id \in pending /\ lastOp'.res \in {"resolved", "rpc_error"}) =>
            /\ lastOp'.id \notin pending'
            /\ settled'[lastOp'.id] = Append(settled[lastOp'.id], lastOp'.res)]_vars

\* requests A then B, B's response first: B is resolved, A is still pending
C1_Witness ==
  \E a, b \in Ids :
    /\ a < b
    /\ owner[a] = "client" /\ owner[b] = "client"
    /\ lastOp = Op("message", b, "resolved")
    /\ settled[b] = <<"resolved">>
    /\ a \in pending /\ settled[a] = <<>>

\* C2: when the timer of a pending request fires, the request is rejected with
\* the timeout error and its entry is removed; a response frame whose id was
\* sent but is no longer pending settles nothing and leaves the pending set
\* as it was.
C2_TimeoutThenLateResponse ==
  [][/\ (lastOp'.op = "timeout" /\ lastOp'.id \in pending) =>
          /\ pending' = pending \ {lastOp'.id}
          /\ settled' = [settled EXCEPT ![lastOp'.id] = Append(@, "timeout")]
     /\ (lastOp'.op = "message" /\ lastOp'.id \in wire /\ lastOp'.id \notin pending) =>
          /\ pending' = pending
          /\ settled' = settled]_vars

\* a request timed out and its response arrived afterwards
C2_Witness ==
  \E i \in Ids :
    /\ owner[i] = "client"
    /\ settled[i] = <<"timeout">>
    /\ i \notin pending
    /\ lastOp = Op("message", i, "event")

\* C3: close() on a connection that is not yet closed rejects every pending
\* request with the closing error, disarms every request timer and empties the
\* pending set; close() on a closed connection settles nothing and changes
\* nothing of the connection.
C3_CloseRejectsAllPending ==
  [][lastOp'.op = "close" =>
       IF closed
       THEN UNCHANGED connVars
       ELSE /\ pending' = {}
            /\ timers' = {}
            /\ closed'
            /\ \A i \in Ids :
                 settled'[i] = IF i \in pending THEN Append(settled[i], "closing")
                               ELSE settled[i]]_vars

\* close() came while three requests were in flight and rejected all three
C3_Witness ==
  /\ lastOp = Op("close", NoId, "closed")
  /\ Cardinality({i \in Ids : owner[i] = "client" /\ settled[i] = <<"closing">>}) >= 3
  /\ pending = {}
  /\ timers = {}

\* --------------------------------------------------------- reconnect loop

\* a connected session of runConnected() is in progress
InSession == pc \in {"init", "waiting"}
\* the session is torn down and start() is at the backoff wait or has returned
TornDown == pc \in {"sleep", "stopped"} /\ ivTimers = {} /\ ~subscribed

\* C4: whenever the socket of a connected session has closed or errored, also
\* during the initial pass, the session is eventually torn down and start()
\* reaches the backoff wait (or returns, when stopped).
C4_TransportCloseLeadsToTeardown ==
  (InSession /\ readyState \in {"CLOSING", "CLOSED"}) ~> TornDown

\* C5: once stop() has set running to false it stays false, and from then on
\* no GatewayConnection is constructed and no open() is started, wherever
\* start() was suspended when stop() came.
C5_NoConnectionAfterStop ==
  [][~running =>
       /\ ~running'
       /\ ~(~connRef /\ connRef')
       /\ ~(openState # "pending" /\ openState' = "pending")
       /\ ~(pc # "opening" /\ pc' = "opening")]_vars

\* stop() came during the backoff sleep; the sleep is over and start() is at
\* the loop condition
C5_Witness ==
  /\ ~running
  /\ pc = "loop"
  /\ reconnectAttempt > 0

\* C6: after stop() the reconnect loop eventually exits, with the interval
\* timers and the frame subscription of the session cancelled.
C6_StopLeadsToExit ==
  ~running ~> (pc = "stopped" /\ ivTimers = {} /\ ~subscribed)

\* C7: while the relay runs, an open() that failed leads start() through its
\* catch without break into close() of that connection, then to the backoff
\* wait with reconnectAttempt one higher and the connection dropped, then back
\* to the loop condition and into a new open(); start() returns only after
\* stop().
C7_OpenFailureAbsorbed ==
  [][/\ (pc = "opening" /\ pc' # "opening" /\ openState = "rejected" /\ running) =>
          (pc' = "finally" /\ ~brk')
     /\ (pc = "finally" /\ pc' # "finally") =>
          (pc' = "closing" /\ closed' /\ pending' = {} /\ timers' = {})
     /\ (pc = "closing" /\ pc' # "closing" /\ running /\ ~brk) =>
          (pc' = "sleep" /\ reconnectAttempt' = reconnectAttempt + 1 /\ ~connRef')
     /\ (pc = "sleep" /\ pc' # "sleep") => pc' = "loop"
     /\ (pc = "loop" /\ pc' # "loop" /\ running) =>
          (pc' = "opening" /\ openState' = "pending" /\ connRef')
     /\ (pc' = "stopped" => ~running')]_vars

\* a second open() failed in a row and the loop is opening a third connection
C7_Witness ==
  /\ running
  /\ pc = "opening"
  /\ openState = "pending"
  /\ reconnectAttempt = 2

\* ------------------------------------------------- forwarding and dedup

\* C8: no message is stored in RemoteStore a second time within the retention
\* (10 minutes) of an earlier store of a message with the same sessionKey,
\* role, content and timestamp, whether the two pushes are in one batch, in
\* successive batches or in batches in progress at the same time.
C8_RepeatNotDelivered == dupes = {}

\* C9: an application message a chat.send of which has succeeded is never
\* sent to the gateway again, also when passes overlap and when markSynced
\* fails.
C9_AtMostOnceForwarding == resent = {}

\* C10: a message is marked synced, or collected by a pass to be marked, only
\* if a chat.send of it has succeeded; a message whose chat.send has only
\* failed is not marked synced and the next getUnsyncedFromApp returns it.
C10_SyncedOnlyIfSent ==
  /\ syncedSet \subseteq okSent
  /\ \A p \in Passes : Elems(fwd[p].syncedIds) \subseteq okSent
  /\ \A m \in failedSent \ okSent :
       m \notin syncedSet /\ m \in Elems(getUnsyncedFromApp)

\* the passes are over: one message got an error response and is still
\* pending, another was sent and is marked synced
C10_Witness ==
  /\ \A p \in Passes : fwd[p].pc = "idle"
  /\ \E i \in Ids : owner[i] = "task" /\ settled[i] = <<"rpc_error">>
  /\ \E m \in failedSent \ okSent : m \in Elems(getUnsyncedFromApp)
  /\ syncedSet # {}

\* C11: every chat.send issued for a stored application message carries that
\* message's own identifier as idempotencyKey, so all sends of one message
\* carry the same key.
C11_SendsCarryMessageId ==
  /\ \A s \in sentKeys : s.key = [kind |-> "id", v |-> s.msg]
  /\ \A s, t \in sentKeys : s.msg = t.msg => s.key = t.key

\* a message was sent a second time
C11_Witness ==
  /\ resent # {}
  /\ \E s \in sentKeys : s.msg \in resent

\* ------------------------------------------------------- chat reconciliation

\* the final event of a run that carries no message or no text
FinalNoText(e) == OfRun(e) /\ e.state = "final" /\ EvtText(e) = <<>>
\* the final event of a run that carries text
FinalWithText(e) == OfRun(e) /\ e.state = "final" /\ EvtText(e) # <<>>

\* the last text of ds that is not empty
RECURSIVE LastText(_)
LastText(ds) ==
  IF ds = <<>> THEN <<>>
  ELSE IF ds[Len(ds)] # <<>> THEN ds[Len(ds)]
  ELSE LastText(SubSeq(ds, 1, Len(ds) - 1))

C13_FinalTextWins ==
  [][\A e \in Events :
       (lastEvt' = <<e>> /\ FinalWithText(e)) =>
         /\ emitted' # <<>> => emitted'[1].content = EvtText(e)
         /\ Trim(EvtText(e)) # <<>> => emitted' # <<>>]_vars

\* a final event with the text "Hel" was emitted as "Hel"
C13_Witness ==
  /\ lastEvt # <<>>
  /\ FinalWithText(lastEvt[1])
  /\ emitted # <<>>
  /\ emitted[1].content = <<"Hel">>

\* C14: a final event of a run issues exactly one push, with role assistant
\* and the event's sessionKey, when the final text (or else the accumulated
\* text) is not empty after trimming, and none otherwise; a delta event
\* issues no push.
C14_OnePushPerFinal ==
  [][\A e \in Events :
       lastEvt' = <<e>> =>
         /\ (OfRun(e) /\ e.state = "delta") => pushedMsg' = <<>>
         /\ (OfRun(e) /\ e.state = "final") =>
              LET t == IF EvtText(e) # <<>> THEN EvtText(e) ELSE LastText(deltas[e.runId])
              IN IF Trim(t) # <<>>
                 THEN /\ Len(pushedMsg') = 1
                      /\ pushedMsg'[1].role = "assistant"
                      /\ pushedMsg'[1].sessionKey = e.sessionKey
                      /\ pushedMsg'[1].content = Slice(t)
                 ELSE pushedMsg' = <<>>]_vars

\* deltas then a final with an empty message on agent:main:main pushed one
\* assistant message with content "Hello"
C14_Witness ==
  /\ lastEvt = <<ChatEvt("final", "r1", MainKey, <<[content |-> OtherContent,
                                                   timestamp |-> 1000]>>)>>
  /\ Len(pushedMsg) = 1
  /\ pushedMsg[1] = [sessionKey |-> MainKey, role |-> "assistant", content |-> <<"Hello">>,
                     timestamp |-> 1000]

\* C15: pushGatewayMessages() prunes before it pushes a batch: right after
\* the prune no recorded hash is older than the retention, and the hash of a
\* message stored more than the retention ago is no longer recorded, so that
\* a repeat of that message is pushed again.
C15_PruneThenRepeatDelivered ==
  [][lastOp' = Op("forward", NoId, "pruned") =>
       \A h \in Hashes :
         /\ recentHashes'[h] # -1 => now - recentHashes'[h] <= Retention
         /\ (lastStored[h] # -1 /\ now - lastStored[h] > Retention) =>
              recentHashes'[h] = -1]_vars

\* a message stored more than 10 minutes ago is being stored again
C15_Witness ==
  \E p \in Passes :
    /\ fwd[p].pc = "await_push"
    /\ lastOp = Op("forward", NoId, "pruned")
    /\ LET h == hashGatewayMessage(Head(fwd[p].batch))
       IN lastStored[h] # -1 /\ now - lastStored[h] > Retention /\ recentHashes[h] = -1

\* ---------------------------------------------------------------- handshake

\* C16: open() resolves only when the response to a connect request is ok and
\* of type hello-ok while the 15 s deadline is still armed; a connect response
\* that is an error or of another type, a socket error, a close before
\* connected, or the deadline make a pending open() reject.
C16_OpenNeedsHelloOk ==
  [][/\ (openState = "pending" /\ openState' = "resolved") =>
          /\ lastOp'.op = "message"
          /\ lastOp'.id \in pending
          /\ owner[lastOp'.id] = "connect"
          /\ lastOp'.res = "resolved"
          /\ lastOp'.type = "hello-ok"
          /\ connectTimer
          /\ connected'
     /\ (openState = "pending" /\ openState' = openState) =>
          /\ ~(lastOp'.op = "message" /\ lastOp'.id \in pending
                 /\ owner[lastOp'.id] = "connect"
                 /\ (lastOp'.res = "rpc_error" \/ lastOp'.type # "hello-ok"))
          /\ lastOp'.op # "wserror"
          /\ lastOp'.op # "connectTimeout"
          /\ ~(lastOp'.op = "wsclose" /\ ~connected)
     /\ (openState = "rejected" => openState' # "resolved")]_vars

\* open() was rejected by an ok connect response that is not hello-ok
C16_Witness ==
  /\ openState = "rejected"
  /\ lastOp.op = "message"
  /\ lastOp.res = "resolved"
  /\ lastOp.type = "other"
  /\ ~connected

\* C17: request() on a connection whose socket is absent or not open rejects
\* at once and registers no pending entry, arms no timer, sends no frame and
\* takes no id.
C17_RequestOnClosedRejects ==
  [][(lastOp'.op = "request" /\ ~(wsRef /\ readyState = "OPEN")) =>
       /\ lastOp'.res = "notopen"
       /\ lastOp'.id = NoId
       /\ UNCHANGED <<pending, timers, owner, wire, nextId, settled>>]_vars

\* a task of the session called request() after the socket had closed
C17_Witness ==
  /\ lastOp = Op("request", NoId, "notopen")
  /\ wsRef
  /\ readyState = "CLOSED"
  /\ pc \in {"init", "waiting"}

\* ------------------------------------------------------------ subscribers

\* C18: when the handler of one subscriber throws on a frame, the handler of
\* every other registered subscriber is still called with that frame.
C18_ThrowDoesNotStopDispatch ==
  [][lastOp'.res = "threw" =>
       \A h \in Registered :
         /\ Len(rx'[h]) = Len(rx[h]) + 1
         /\ rx'[h][Len(rx'[h])].n = rxCount']_vars

\* C19: the handler of a subscriber is called with exactly the parsed frames
\* that answered no pending request and arrived while it was registered, once
\* each and in the order of their arrival; nothing more after it unsubscribed.
C19_SubscribersGetEveryFrameInOrder ==
  \A h \in Subs : rx[h] = expect[h]

\* --------------------------------------------------- teardown of a session

\* the timers and the subscription of a session change only by being cancelled,
\* all five timers and the subscription in one step
TeardownTogether ==
  [][((ivTimers # {} \/ subscribed) /\ (ivTimers' # ivTimers \/ subscribed' # subscribed)) =>
       /\ ivTimers = IntervalTimers
       /\ subscribed
       /\ ivTimers' = {}
       /\ ~subscribed']_vars

\* a timer of a session starts its task only while the session is in progress
NoTickAfterTeardown ==
  [][lastOp'.op = "tick" => (InSession /\ InSession')]_vars

\* C20: when the connection of a connected session has closed, the five
\* interval timers and the frame subscription of the session are cancelled,
\* all in one step, and afterwards no timer starts a task for that connection.
C20_CloseCancelsTimersTogether ==
  /\ (InSession /\ readyState = "CLOSED") ~> (ivTimers = {} /\ ~subscribed)
  /\ TeardownTogether
  /\ NoTickAfterTeardown

\* ------------------------------------------------- failures inside tasks

\* C21: a synchronization task that fails at an external call, in the initial
\* pass or started by a timer, leaves the session, the connection and the
\* reconnect loop as they are: the initial pass goes on to its next task, no
\* timer and no subscription is cancelled, and the timer of the failed task
\* stays armed for its next tick.
C21_TaskFailureContained ==
  [][lastOp'.type = "failed" =>
       /\ running' = running
       /\ connRef' = connRef
       /\ reconnectAttempt' = reconnectAttempt
       /\ ivTimers' = ivTimers
       /\ subscribed' = subscribed
       /\ wsRef' = wsRef
       /\ readyState' = readyState
       /\ closed' = closed
       /\ lastOp'.op = "initStep" =>
            /\ pc = "init"
            /\ IF initStep < InitSteps
               THEN pc' = "init" /\ initStep' = initStep + 1
               ELSE pc' = "waiting" /\ initStep' = initStep
       /\ lastOp'.op = "tick" =>
            /\ pc' = pc
            /\ initStep' = initStep
            /\ lastOp'.res \in ivTimers']_vars

\* the task a timer started has failed while the session waits for the close
\* of its connection, all five timers still armed
C21_Witness ==
  /\ lastOp.op = "tick"
  /\ lastOp.type = "failed"
  /\ pc = "waiting"
  /\ ivTimers = IntervalTimers
  /\ subscribed
  /\ readyState = "OPEN"

\* ---------------------------------------------------------------- backoff

\* the wait before the k-th retry in a row, before jitter
PreJitter(k) ==
  CASE k = 1 -> 2000
    [] k = 2 -> 4000
    [] k = 3 -> 8000
    [] k = 4 -> 16000
    [] OTHER -> 30000

\* C22: the k-th retry in a row since the last open that succeeded waits 2 s,
\* 4 s, 8 s, 16 s for k = 1..4 and 30 s for every k >= 5, plus a jitter of 0 to
\* 500 ms; an open that succeeded makes the next retry the first one again.
C22_BackoffSchedule ==
  [][lastOp'.op = "retry" =>
       /\ reconnectAttempt' = IF lastOp'.res = "opened" THEN 1 ELSE reconnectAttempt + 1
       /\ waitMs' >= PreJitter(reconnectAttempt')
       /\ waitMs' <= PreJitter(reconnectAttempt') + 500]_vars

\* the sixth open in a row has failed and the loop sleeps the capped wait with
\* the largest jitter
C22_Witness ==
  /\ pc = "sleep"
  /\ lastOp = Op("retry", NoId, "failed")
  /\ reconnectAttempt = 6
  /\ waitMs = 30499

\* ----------------------------------------------------------- cron actions

\* C23: when a pass of processCronActions() is over, every action of the pass
\* that LocalControl failed to execute, or whose name has no command, has been
\* reported to RemoteStore with status error, and no action of the pass was
\* left unprocessed.
C23_FailedActionReportedOthersProcessed ==
  cron.pc = "idle" =>
    /\ cron.left = <<>>
    /\ \A id \in cron.failed : <<id, "error">> \in cron.reported

\* ------------------------------------------------------- one connection

\* C24: a GatewayConnection is constructed only when the relay holds none and
\* the close() of the one before has returned: its socket is no longer open or
\* connecting and none of its requests is pending.
C24_OneConnectionAtATime ==
  [][lastOp'.op = "construct" =>
       /\ ~connRef
       /\ ~wsRef
       /\ readyState \notin {"CONNECTING", "OPEN"}
       /\ closeState # "pending"
       /\ pending = {}]_vars

\* a connection has been constructed after the close() of an earlier one
C24_Witness ==
  /\ lastOp = Op("construct", NoId, "open")
  /\ reconnectAttempt = 1
  /\ connRef
  /\ readyState = "CONNECTING"

\* ------------------------------------------- failures of single requests

\* C25: the timeout of a request, or an error response to it, settles that
\* request alone: every other pending request stays pending with its timer and
\* is not settled, the socket and the connection are as before, and the ids of
\* later requests go on from where they were.
C25_RequestFailureIsLocal ==
  [][(lastOp'.op = "timeout" \/ (lastOp'.op = "message" /\ lastOp'.res = "rpc_error")) =>
       LET id == lastOp'.id IN
       /\ pending' = pending \ {id}
       /\ timers' = timers \ {id}
       /\ \A j \in Ids \ {id} : settled'[j] = settled[j]
       /\ Len(settled'[id]) = Len(settled[id]) + 1
       /\ wsRef' = wsRef
       /\ readyState' = readyState
       /\ closed' = closed
       /\ connected' = connected
       /\ nextId' = nextId
       /\ wire' = wire]_vars

\* a request has timed out while another one is pending on the open socket
C25_Witness ==
  /\ lastOp.op = "timeout"
  /\ pending # {}
  /\ timers = pending
  /\ wsRef
  /\ readyState = "OPEN"
  /\ ~closed

\* ------------------------------------------------ inbound normalization

\* C26: every message delivered to RemoteStore from the gateway side, by a
\* chat final event, by the history backfill or out of a chat.send response,
\* has a content of at most 4000 units.
C26_PushedContentCapped ==
  \A i \in 1..Len(inLog) : Len(inLog[i].msg.content) <= 4000

\* C27: every message delivered to RemoteStore from the gateway side has role
\* user, assistant or system, and a gateway message whose role is none of the
\* three is delivered with role assistant, on each of the three paths.
C27_RoleCoercedToAssistant ==
  \A i \in 1..Len(inLog) :
    /\ inLog[i].msg.role \in {"user", "assistant", "system"}
    /\ inLog[i].rawRole \notin {"user", "assistant", "system"} =>
         inLog[i].msg.role = "assistant"

\* C29: within the retention (the clock does not advance here) no message is
\* delivered to RemoteStore a second time with the same sessionKey, role,
\* content and timestamp, whichever of the three paths the two pushes took.
C29_EveryPathDeduplicated ==
  \A i, j \in 1..Len(inLog) : i # j => inLog[i].msg # inLog[j].msg

\* ------------------------------------------------------------ initial pass

\* C28: in a connected session the eight tasks of the initial pass run one
\* after the other, each once, and no timer starts a task before the last of
\* them has returned.
C28_InitialPassBeforeTicks ==
  [][/\ lastOp'.op = "tick" => pc # "init"
     /\ (pc = "init" /\ lastOp'.op = "initStep") =>
          IF initStep < InitSteps
          THEN pc' = "init" /\ initStep' = initStep + 1
          ELSE pc' = "waiting"]_vars

\* ------------------------------------------------------ accumulated deltas

\* C30: pendingDeltas holds at most one entry per run, and once the final
\* event of a run (a chat event with runId and sessionKey) has been handled no
\* entry of that run is left, whether the final emitted a message or not.
C30_FinalRemovesEntry ==
  /\ \A r \in Runs : Len(pendingDeltas[r]) <= 1
  /\ (lastEvt # <<>> /\ OfRun(lastEvt[1]) /\ lastEvt[1].state = "final") =>
       pendingDeltas[lastEvt[1].runId] = <<>>

\* the final event of run r1 emitted nothing and the entry of r1 is gone, while
\* run r2 still has its entry
C30_Witness ==
  /\ lastEvt # <<>>
  /\ OfRun(lastEvt[1])
  /\ lastEvt[1].state = "final"
  /\ lastEvt[1].runId = "r1"
  /\ emitted = <<>>
  /\ pendingDeltas["r1"] = <<>>
  /\ pendingDeltas["r2"] # <<>>

\* ------------------------------------------------------- settling requests

\* C31: a request that registered a pending entry is settled at most once, by
\* whichever of its response, its timeout and close() comes first; a settled
\* request has no pending entry and no armed timer left, so neither of the
\* other two settles it again.
C31_SettledAtMostOnce ==
  \A i \in Ids :
    /\ Len(settled[i]) <= 1
    /\ settled[i] # <<>> => (i \notin pending /\ i \notin timers)

\* after close(): one request was resolved by its response, one was rejected
\* by its timeout and one by close(), each exactly once
C31_Witness ==
  /\ closed
  /\ \E i, j, k \in Ids :
       /\ settled[i] = <<"resolved">>
       /\ settled[j] = <<"timeout">>
       /\ settled[k] = <<"closing">>

\* C32: every request that registered a pending entry is eventually settled,
\* by its response, by its own timeout or by close(), also when the gateway
\* closes the socket and no response ever arrives.
C32_PendingEventuallySettles ==
  \A i \in Ids : (i \in pending) ~> (settled[i] # <<>>)

\* the gateway closed the socket, close() was not called, and a request of the
\* caller that never got a response was rejected by its own timeout
C32_Witness ==
  /\ readyState = "CLOSED"
  /\ ~closed
  /\ \E i \in Ids : owner[i] = "client" /\ settled[i] = <<"timeout">>

\* C33: once close() has been called on a connection, no request frame is sent
\* on it and its pending set stays empty: every later request() on it, also of
\* a task of the session that is still in flight, rejects at once. (LoopHead
\* constructs the next connection, a new object.)
C33_NoRequestAfterClose ==
  [][(closed /\ lastOp'.op # "construct") =>
       /\ closed'
       /\ pending = {}
       /\ pending' = {}
       /\ wire' = wire
       /\ nextId' = nextId
       /\ lastOp'.op = "request" => (lastOp'.res = "notopen" /\ lastOp'.id = NoId)]_vars

\* a task of a session called request() on the connection after close(), with
\* frames sent on it before
C33_Witness ==
  /\ closed
  /\ lastOp = Op("request", NoId, "notopen")
  /\ initStep > 0
  /\ wire # {}

\* ------------------------------------------------ overlapping cron passes

\* C34: each pending action is executed through LocalControl at most once and
\* reported with completeAction exactly once, also when the timer starts a pass
\* of processCronActions() while an earlier pass is still in progress.
C34_ActionProcessedOnce ==
  \A a \in Polled :
    /\ polls.execs[a] <= 1
    /\ polls.reports[a] <= 1
    /\ polls.table[a] # "pending" => polls.reports[a] = 1

\* ------------------------------------------------- pushes that fail

\* C35: a dedup hash is recorded only by a pushFromGateway mutation that
\* succeeded, for the message it stored. When the mutation fails no hash is
\* recorded and the loop goes on with the rest of the batch, where a message
\* identical to the one that failed is pushed again instead of being skipped
\* (unless the push of another pass has stored it and recorded its hash).
C35_HashOnlyAfterStoredPush ==
  [][\A p \in Passes :
       LET returned == fwd[p].pc = "await_push" /\ fwd'[p] # fwd[p]
           failed == lastOp'.res = "pushFailed"
           h == hashGatewayMessage(Head(fwd[p].batch))
           rest == Tail(fwd[p].batch)
       IN /\ \A g \in Hashes :
               (recentHashes'[g] # recentHashes[g] /\ recentHashes'[g] # -1) =>
                 /\ ~failed
                 /\ recentHashes'[g] = now
                 /\ lastStored'[g] = now
                 /\ \E q \in Passes :
                      /\ fwd[q].pc = "await_push"
                      /\ fwd'[q] # fwd[q]
                      /\ g = hashGatewayMessage(Head(fwd[q].batch))
          /\ (returned /\ ~failed) => recentHashes'[h] = now
          /\ (returned /\ failed) =>
               /\ recentHashes' = recentHashes
               /\ lastStored' = lastStored
               /\ (\E k \in 1..Len(rest) :
                     recentHashes[hashGatewayMessage(rest[k])] = -1) =>
                    /\ fwd'[p].pc = "await_push"
                    /\ recentHashes[hashGatewayMessage(Head(fwd'[p].batch))] = -1
               /\ (rest # <<>> /\ Head(rest) = Head(fwd[p].batch)
                     /\ recentHashes[h] = -1) =>
                    fwd'[p].batch = rest]_vars

\* the first push of the only pass in progress has failed: nothing is stored,
\* no hash is recorded, and the pass is now pushing the second message of its
\* batch, which repeats the first
C35_Witness ==
  /\ lastOp = Op("forward", NoId, "pushFailed")
  /\ \A h \in Hashes : recentHashes[h] = -1 /\ lastStored[h] = -1
  /\ \E p \in Passes :
       /\ fwd[p].pc = "await_push"
       /\ Len(fwd[p].batch) = 1
       /\ \A q \in Passes \ {p} : fwd[q].pc = "idle"
\* ------------------------------------------------------ connection epochs

\* C36: the interval timers and the frame subscription of at most one
\* connected session are active: they are armed only by runConnected() for the
\* connection start() holds, while none is armed; they exist only while that
\* session is in progress; and all are cancelled when start() constructs the
\* next GatewayConnection, so no timer of an earlier connection fires
\* alongside a later one.
C36_OneSessionsTimers ==
  [][/\ lastOp'.op = "construct" => (ivTimers = {} /\ ~subscribed)
     /\ (ivTimers' # {} \/ subscribed') => (connRef' /\ InSession')
     /\ (ivTimers' # ivTimers /\ ivTimers' # {}) =>
          /\ lastOp'.op = "afterOpen"
          /\ ivTimers = {}
          /\ ~subscribed
     /\ lastOp'.op = "tick" => (connRef /\ InSession)]_vars

\* a connected session has finished its initial pass and has ended, its timers
\* and its subscription are cancelled, and start() is about to construct the
\* next connection
C36_Witness ==
  /\ pc = "loop"
  /\ running
  /\ initStep = InitSteps
  /\ ~connRef
  /\ ivTimers = {}
  /\ ~subscribed

====
